---- MODULE Spec2Model ----
(***************************************************************************)
(* Verification model of the SCPI command server (python-scpi).            *)
(*                                                                         *)
(* Fifteen specifications share the variables below:                       *)
(*   SpecAccess   - several client sessions connecting, running their      *)
(*                  enter and exit hooks, issuing ACCess, calling macros,  *)
(*                  being authorized, and disconnecting;                   *)
(*   SpecExec     - one client session whose input thread reads command    *)
(*                  lines, invokes leaves, spawns workers for asynchronous *)
(*                  commands and writes replies through its write queue;   *)
(*   SpecMacro    - one client session invoking a macro whose body holds   *)
(*                  NEXT, RETurn, BREak, failing and ordinary commands;    *)
(*   SpecPub      - the publication bus: topics, subscriptions, future     *)
(*                  filters, publishing and pending messages;              *)
(*   SpecTeardown - client sessions that subscribe and then disconnect;    *)
(*   SpecDispatch - concurrent publishers delivering messages to the       *)
(*                  subscribers' callbacks, and the sessions' output       *)
(*                  threads writing queued replies and messages;           *)
(*   SpecTree     - sessions looking up, defining and removing commands    *)
(*                  in one branch of the shared command tree;              *)
(*   SpecVars     - sessions reading and setting variables in the local,   *)
(*                  branch and global scopes, and running macros;          *)
(*   SpecBind     - a leaf binding the words of a command line to its      *)
(*                  declared inputs;                                       *)
(*   SpecReady    - a network session running its enter hooks, sending     *)
(*                  READy and reading the client's commands;               *)
(*   SpecClient   - the client library: senders, the receive loop, the     *)
(*                  response queues and a connection that is lost;         *)
(*   SpecParse    - CommandParser collapsing argument lists to text and    *)
(*                  expanding the text again;                              *)
(*   SpecMacroAccess - sessions defining macros with an access level and   *)
(*                  calling them;                                          *)
(*   SpecBreak    - nested inline macros whose bodies hold BREak;          *)
(*   SpecSession  - the listeners, macros and module loader constructing   *)
(*                  sessions and taking session ids.                       *)
(***************************************************************************)
EXTENDS Integers, Sequences, FiniteSets, TLC

(***************************************************************************)
(* Access levels (sessions/symbols.py)                                     *)
(***************************************************************************)
GUEST == 0
OBSERVER == 1
CONTROLLER == 2
ADMINISTRATOR == 3
FULL == 4
AccessLevels == GUEST..FULL

Min(a, b) == IF a <= b THEN a ELSE b
Max(a, b) == IF a >= b THEN a ELSE b

(***************************************************************************)
(* Bounds                                                                  *)
(***************************************************************************)
NClients == 2        \* client sessions that may be connected at once
MaxOps == 4          \* operations explored per behaviour of SpecAccess

NoSession == 0                       \* BaseSession.exclusive = None
Clients == 1..NClients               \* ClientSession objects
Sessions == Clients
NoKey == 0 - 1                       \* an authentication profile without that key

VARIABLES
    \* ---- access control (BaseSession / ClientSession / NetworkSession) ----
    accessinfo,     \* access.json: [defaultAccess, accessLimits, authLimits]
    phase,          \* per session: "none" | "enter" | "run" | "exit" | "ended"
    accessLevel,    \* per session: self.accessLevel
    accessLimit,    \* per session: self.accessLimit
    authLimit,      \* per session: self.authLimit
    stealthAccess,  \* per session: self.stealthAccess
    originalAccess, \* per session: local of runHooks while hooks run
    exclusive,      \* BaseSession.exclusive (NoSession or a session)
    result,         \* outcome of the last access operation
    nops,           \* operations performed so far
    \* ---- one client session executing commands (SpecExec) ----
    nread,          \* lines read from the input stream so far
    inThread,       \* input thread: "read" | "run" | "closed" | "died"
    cur,            \* the command the input thread is about to run
    context,        \* the session's Context, shared with its workers
    workers,        \* per command: the worker started for its NextReply
    writeQueue,     \* SocketSession.writeQueue
    wire,           \* replies written to the output stream
    jobs,           \* BaseSession.jobs of asynchronous invocations
    inv,            \* per command: what its leaf invocation has executed
    runLock,        \* Singleton._runLock of the singleton leaf class
    children,       \* leaves incarnated in their branch (Branch.children)
    variables,      \* the session variable written by VARiable=
    lastLine,       \* what the last call of getCommand found
    \* ---- one macro invoked by a client session (SpecMacro) ----
    mbody,          \* the macro's text: its commands in order
    minline,        \* TRUE for an InlineMacro, FALSE for a Macro
    mpc,            \* commands read from the macro's instream so far
    mrun,           \* input thread: "idle" | "body" | "returning" | "done"
    mworker,        \* worker started by NEXT: "none" | "starting" | "running" | "done"
    mecho,          \* the echo the worker computed when it started
    mtext,          \* context.text: "macro" | "body" | "next"
    mexec,          \* body positions executed so far, in order
    mreplies,       \* replies sent to the client for this macro
    mjobs,          \* BaseSession.jobs: the threads with an invocation in progress
    mnext,          \* the client's command after the macro has run
    \* ---- the publication bus (SpecPub) ----
    ptopics,        \* _subscriptions, in insertion order: [name, level, subs]
    pfilters,       \* _futureFilters: [pattern, records]
    pdelayed,       \* _delayedMessages: [trigger, message, subscribers]
    pmin,           \* MinSubscriptionLevel
    pdelivered,     \* the callback invocations made by the last operation
    presult,        \* the last bus operation and its outcome
    pregistered,    \* the subscriptions made and not since withdrawn
    npub,           \* bus operations performed so far
    \* ---- publishers, callbacks and socket output (SpecDispatch) ----
    ncalls,         \* calls of publishMessage so far; a message's id is its call number
    dpc,            \* per publishing thread: "idle" | "walk"
    dmsg,           \* per publishing thread: the message it is dispatching
    dsnap,          \* per publishing thread: the records getSubscribers returned
    dnext,          \* per publishing thread: records of dsnap called so far
    dend,           \* per publishing thread: how its last walk ended
    dcalls,         \* the callback invocations made, in the order they were made
    dqueue,         \* per session: SocketSession.writeQueue
    dqn,            \* per session: items put on its writeQueue so far
    dwriting,       \* per session: the item its output thread is writing
    dwire,          \* per session: the writes made to its outstream, in order
    nframes,        \* replies sent by session threads so far
    \* ---- one branch of the command tree, shared by the sessions (SpecTree) ----
    tchildren,      \* Branch.children: key -> (obj, altnames), or no entry
    tpc,            \* per session thread: "idle" | "incarnate" | "addChild" | "delChild"
    tjob,           \* per session thread: the object and the keys still to handle
    tresult,        \* per session thread: the outcome of its last tree operation
    tlooked,        \* the (key, object, session) of the lookups that returned an object
    nobj,           \* command objects created so far
    ntree,          \* tree operations started so far
    \* ---- variables in their three scopes (SpecVars) ----
    vlocal,         \* per session: Context.data, the local map of its context
    vbranch,        \* per branch: Branch.branchData
    vglobal,        \* Base.globalData, one map for the process
    vresult,        \* the outcome of the last variable operation
    nvar,           \* variable commands and macro runs so far
    \* ---- one leaf binding the parts of a command line (SpecBind) ----
    bdecl,          \* the parameters declared by the leaf that is invoked
    bparts,         \* the option names of the parts of the command line
    bresult,        \* the outcome of binding them, with the values of the parameters
    \* ---- the handshake of one network session (SpecReady) ----
    hhooks,         \* the enter hooks of the network session, one kind per hook text
    hpc,            \* where the session thread is: setup, hooks, handle, input, cleanup, closed, raised
    hidx,           \* the enter hook that runHooks runs next
    hwire,          \* the lines written to the client of the network session
    hthreads,       \* the hooks whose rest still runs in a thread of startThread
    hexception,     \* whether context.exception is set
    hcmds,          \* command lines of the client answered so far
    \* ---- the client library and the loss of its connection (SpecClient) ----
    cconfig,        \* how the client was connected: with a receive thread, with autoconnect
    cstream,        \* the connection of the client: open or lost
    is_connected,   \* BaseClient.is_connected
    is_receiving,   \* the receive thread: no, run, exit (is_receiving is True in run and exit)
    pending,        \* the keys of BaseClient.pending
    cqueue,         \* the response queue of each command index
    commandIndex,   \* BaseClient.commandIndex
    csender,        \* where send_command is: idle, or locked after the test of is_connected
    clast,          \* the last send_command: calls so far, called while disconnected, outcome
    cwaiter,        \* receive_response of each command: none, sent, loop, get, or what it ended with
    \* ---- the round trip of CommandParser (SpecParse) ----
    pparts,         \* the part list given to collapseArgs
    ptext,          \* the text collapseArgs made of it
    pparsed,        \* what expandArgs made of the text
    \* ---- the access level of macro bodies (SpecMacroAccess) ----
    mmacro,         \* the macro object in the command tree: its access, the level of the session that defined it, inline or not
    mresult,        \* the last MACRo+ command or macro call: the level of the caller, the access asked for or held, the outcome, the level the text ran with
    mops,           \* MACRo+ commands and macro calls so far
    \* ---- BREak in nested inline macros (SpecBreak) ----
    bbodies,        \* the bodies of the inline macros
    bstack,         \* the running runStream loops: the macro each reads and the commands it has read
    bstate,         \* the command of the client: read, run, replied
    \* ---- session ids ----
    sessionIndex,   \* the attribute sessionIndex of each class that has its own
    instances       \* the sessions BaseSession.__init__ has registered, in order

accVars == <<accessinfo, phase, accessLevel, accessLimit, authLimit,
             stealthAccess, originalAccess, exclusive, result, nops>>

execVars == <<nread, inThread, cur, context, workers, writeQueue, wire, jobs,
              inv, runLock, children, variables, lastLine>>

macroVars == <<mbody, minline, mpc, mrun, mworker, mecho, mtext, mexec,
               mreplies, mjobs, mnext>>

pubVars == <<ptopics, pfilters, pdelayed, pmin, pdelivered, presult,
             pregistered, npub>>

dispVars == <<ncalls, dpc, dmsg, dsnap, dnext, dend, dcalls, dqueue, dqn,
              dwriting, dwire, nframes>>

treeVars == <<tchildren, tpc, tjob, tresult, tlooked, nobj, ntree>>

varVars == <<vlocal, vbranch, vglobal, vresult, nvar>>

bindVars == <<bdecl, bparts, bresult>>

readyVars == <<hhooks, hpc, hidx, hwire, hthreads, hexception, hcmds>>

clientVars == <<cconfig, cstream, is_connected, is_receiving, pending, cqueue, commandIndex, csender, clast, cwaiter>>

parseVars == <<pparts, ptext, pparsed>>

maccVars == <<mmacro, mresult, mops>>

brkVars == <<bbodies, bstack, bstate>>

sessVars == <<sessionIndex, instances>>

laterVars == <<dispVars, treeVars, varVars, bindVars, readyVars, clientVars, parseVars, maccVars, brkVars, sessVars>>

accRest == <<execVars, macroVars, pubVars, laterVars>>  \* left alone by the access operations
execRest == <<accVars, macroVars, pubVars, laterVars>>  \* left alone by command execution
macroRest == <<accVars, execVars, pubVars, laterVars>>  \* left alone by a macro
pubRest == <<accVars, execVars, macroVars, laterVars>>  \* left alone by the bus
dispRest == <<accVars, execVars, macroVars, treeVars, varVars, bindVars, readyVars, clientVars, parseVars, maccVars, brkVars, sessVars>>  \* left alone by dispatch and output
treeRest == <<accVars, execVars, macroVars, pubVars, dispVars, varVars, bindVars, readyVars, clientVars, parseVars, maccVars, brkVars, sessVars>>  \* left alone by the tree
varsRest == <<accVars, execVars, macroVars, pubVars, dispVars, treeVars, bindVars, readyVars, clientVars, parseVars, maccVars, brkVars, sessVars>>  \* left alone by the variable commands
bindRest == <<accVars, execVars, macroVars, pubVars, dispVars, treeVars, varVars, readyVars, clientVars, parseVars, maccVars, brkVars, sessVars>>
readyRest == <<accVars, execVars, macroVars, pubVars, dispVars, treeVars, varVars, bindVars, clientVars, parseVars, maccVars, brkVars, sessVars>>
clientRest == <<accVars, execVars, macroVars, pubVars, dispVars, treeVars, varVars, bindVars, readyVars, parseVars, maccVars, brkVars, sessVars>>
parseRest == <<accVars, execVars, macroVars, pubVars, dispVars, treeVars, varVars, bindVars, readyVars, clientVars, maccVars, brkVars, sessVars>>
maccRest == <<accVars, execVars, macroVars, pubVars, dispVars, treeVars, varVars, bindVars, readyVars, clientVars, parseVars, brkVars, sessVars>>
brkRest == <<accVars, execVars, macroVars, pubVars, dispVars, treeVars, varVars, bindVars, readyVars, clientVars, parseVars, maccVars, sessVars>>
sessRest == <<accVars, execVars, macroVars, pubVars, dispVars, treeVars, varVars, bindVars, readyVars, clientVars, parseVars, maccVars, brkVars>>

vars == <<accessinfo, phase, accessLevel, accessLimit, authLimit,
          stealthAccess, originalAccess, exclusive, result, nops,
          nread, inThread, cur, context, workers, writeQueue, wire, jobs,
          inv, runLock, children, variables, lastLine,
          mbody, minline, mpc, mrun, mworker, mecho, mtext, mexec,
          mreplies, mjobs, mnext,
          ptopics, pfilters, pdelayed, pmin, pdelivered, presult,
          pregistered, npub,
          ncalls, dpc, dmsg, dsnap, dnext, dend, dcalls, dqueue, dqn,
          dwriting, dwire, nframes,
          tchildren, tpc, tjob, tresult, tlooked, nobj, ntree,
          vlocal, vbranch, vglobal, vresult, nvar,
          bdecl, bparts, bresult,
          hhooks, hpc, hidx, hwire, hthreads, hexception, hcmds,
          cconfig, cstream, is_connected, is_receiving, pending, cqueue, commandIndex, csender, clast, cwaiter,
          pparts, ptext, pparsed,
          mmacro, mresult, mops,
          bbodies, bstack, bstate,
          sessionIndex, instances>>

(***************************************************************************)
(* The publication bus (scpi/tools/publication.py).  Topic names are kept  *)
(* in lower case, as the keys of _subscriptions are; masks are glob        *)
(* patterns (regex=False).  A callback is the processMessage method of a   *)
(* client session and is named by that session.                            *)
(***************************************************************************)
MaxPub == 3                          \* publication operations per behaviour
TRACE == 0
DEBUG == 1
INFO == 2
NOTICE == 3
WARNING == 4
NoLevel == 0 - 1                     \* level=None
NoArgs == 0                          \* args=None
NoTrigger == "none"                  \* trigger=None
PTopics == {"info", "a1"}
Masks == {"a1", "a*"}
Triggers == {"t1", "t2"}
SessionArgs == 1                     \* (messageFormat, includeSession)
RaisingArgs == 2                     \* a messageFormat such as "$kwargs:3$"
PreemptArgs == 3                     \* (rxfilters, action, scope, preempt=True)

\* rx.match(name) for rx = _compile(mask): fnmatch.translate with re.I
match(mask, name) ==
    IF mask = "a*" THEN name \in {"a1"} ELSE mask = name

\* _wildcardMagic.search(mask) is not None
iswildcard(mask) == mask \in {"a*"}

topicExists(ts, name) == \E i \in DOMAIN ts : ts[i].name = name

topicIndex(ts, name) == CHOOSE i \in DOMAIN ts : ts[i].name = name

\* getLevel(topic, ignoreMissing=True): the topic's level, DEBUG when missing
getLevel(ts, name) ==
    IF topicExists(ts, name) THEN ts[topicIndex(ts, name)].level ELSE DEBUG

_matchingCallback(r, callback, args) ==
    r.cb = callback /\ (args = NoArgs \/ args = r.args)

\* _removeSubscriptions on one list: every entry of the callback is removed
_callbackRemoved(records, callback, args) ==
    LET keep(r) == ~_matchingCallback(r, callback, args)
    IN  SelectSeq(records, keep)

\* _removeSubscriptions that leaves the future filters as they are.
_removeSubscriptions_topicsOnly(fs, pattern, callback, args) == fs

\* _removeSubscriptions on the future filters: the entries of the callback
\* are removed from the filters of that pattern (every filter when the
\* pattern is "", as for clearSubscriptions), then empty filters are pruned.
_removeSubscriptions(fs, pattern, callback, args) ==
    LET cleared == [i \in DOMAIN fs |->
                      IF pattern \in {"", fs[i].pattern}
                      THEN [fs[i] EXCEPT !.records =
                                _callbackRemoved(fs[i].records, callback, args)]
                      ELSE fs[i]]
        nonempty(f) == f.records # <<>>
    IN  SelectSeq(cleared, nonempty)

\* unsubscribe on the topics: the lists of the topics the mask matches
unsubscribeTopics(ts, mask, callback, args) ==
    [i \in DOMAIN ts |->
        IF match(mask, ts[i].name)
        THEN [ts[i] EXCEPT !.subs = _callbackRemoved(ts[i].subs, callback, args)]
        ELSE ts[i]]

\* clearSubscriptions on the topics: every list
clearTopics(ts, callback) ==
    [i \in DOMAIN ts |->
        [ts[i] EXCEPT !.subs = _callbackRemoved(ts[i].subs, callback, NoArgs)]]

RECURSIVE futureRecords(_, _)
\* The records addTopic collects for a new topic, in filter order.
futureRecords(fs, name) ==
    IF fs = <<>> THEN <<>>
    ELSE (IF match(Head(fs).pattern, name) THEN Head(fs).records ELSE <<>>)
         \o futureRecords(Tail(fs), name)

\* addTopic that creates a new topic with an empty subscriber list.
addTopicTo_noFuture(ts, fs, name, level) ==
    IF topicExists(ts, name)
    THEN [ts EXCEPT ![topicIndex(ts, name)].level = level]
    ELSE Append(ts, [name |-> name, level |-> level, subs |-> <<>>])

\* addTopic: an existing topic keeps its subscribers and takes the level;
\* a new one starts with the records of the matching future filters.
addTopicTo(ts, fs, name, level) ==
    IF topicExists(ts, name)
    THEN [ts EXCEPT ![topicIndex(ts, name)].level = level]
    ELSE Append(ts, [name |-> name, level |-> level,
                     subs |-> futureRecords(fs, name)])

\* getSubscribers: the (callback, args) of the records whose cutoff is at
\* most the level
getSubscribers(ts, name, level) ==
    LET selected(r) == r.level <= level
    IN  SelectSeq(ts[topicIndex(ts, name)].subs, selected)

\* subscribe's loop over the topics: the record is appended to every match
subscribeTopics(ts, mask, rec) ==
    [i \in DOMAIN ts |->
        IF match(mask, ts[i].name)
        THEN [ts[i] EXCEPT !.subs = Append(ts[i].subs, rec)]
        ELSE ts[i]]

\* subscribe's future part: the record joins the filter of its pattern
addFuture(fs, mask, rec) ==
    IF \E i \in DOMAIN fs : fs[i].pattern = mask
    THEN [i \in DOMAIN fs |->
            IF fs[i].pattern = mask
            THEN [fs[i] EXCEPT !.records = Append(fs[i].records, rec)]
            ELSE fs[i]]
    ELSE Append(fs, [pattern |-> mask, records |-> <<rec>>])

\* The subscriptions in force, kept beside the bus: (mask, callback, args)
\* with the `future` that was in effect.
dropRegistered(reg, mask, callback, args) ==
    {r \in reg : ~(r.mask = mask /\ _matchingCallback(r, callback, args))}

\* The bus after import: the log topics exist (one of them is kept here), no
\* subscription has been made and MinSubscriptionLevel is len(LogLevels).
PubIdle ==
    /\ ptopics = <<[name |-> "info", level |-> INFO, subs |-> <<>>]>>
    /\ pfilters = <<>>
    /\ pdelayed = <<>>
    /\ pmin = 6
    /\ pdelivered = <<>>
    /\ presult = [op |-> "none", out |-> "none", count |-> 0]
    /\ pregistered = {}
    /\ npub = 0

(***************************************************************************)
(* Publishing threads and the per-session socket output.                   *)
(***************************************************************************)
NPublishers == 2                     \* threads that call publish
Publishers == 1..NPublishers
MaxCalls == 2                        \* calls of publishMessage per behaviour
MaxFrames == 1                       \* replies sent by session threads per behaviour
NoMessage == [id |-> 0, topic |-> "none", level |-> NoLevel]
NoItem == [qn |-> 0, kind |-> "none", id |-> 0, writes |-> 0]

\* No message is being dispatched and nothing has been queued for output.
DispIdle ==
    /\ ncalls = 0
    /\ dpc = [p \in Publishers |-> "idle"]
    /\ dmsg = [p \in Publishers |-> NoMessage]
    /\ dsnap = [p \in Publishers |-> <<>>]
    /\ dnext = [p \in Publishers |-> 0]
    /\ dend = [p \in Publishers |-> "none"]
    /\ dcalls = <<>>
    /\ dqueue = [s \in Clients |-> <<>>]
    /\ dqn = [s \in Clients |-> 0]
    /\ dwriting = [s \in Clients |-> [item |-> NoItem, written |-> 0]]
    /\ dwire = [s \in Clients |-> <<>>]
    /\ nframes = 0

(***************************************************************************)
(* One branch of the command tree (base/base.py, base/branch.py,           *)
(* base/dynamic_base.py).  A name is a sequence of characters; a character *)
(* is a letter with its case.                                              *)
(***************************************************************************)
MaxTree == 3                         \* tree operations started per behaviour

U(l) == [l |-> l, up |-> TRUE]       \* an upper-case letter
L(l) == [l |-> l, up |-> FALSE]      \* a lower-case letter

\* str.lower() and str.upper()
lower(name) == [i \in DOMAIN name |-> L(name[i].l)]
upper(name) == [i \in DOMAIN name |-> U(name[i].l)]

\* _lowerCaseX.sub('', name): every lower-case letter is removed
shortname(name) ==
    LET notLower(c) == c.up
    IN  SelectSeq(name, notLower)

RECURSIVE intername(_)
\* _interCaseX.sub(r'\1', name): a run of lower-case letters is removed when
\* a character that is not a lower-case letter follows it; the trailing run
\* stays.
intername(name) ==
    IF name = <<>> THEN <<>>
    ELSE IF Head(name).up \/ (\A j \in DOMAIN name : ~name[j].up)
         THEN <<Head(name)>> \o intername(Tail(name))
         ELSE intername(Tail(name))

\* Base.alternateNames(name)
alternateNames(name) == <<name, intername(name), shortname(name)>>

\* The command class defined in the branch's class, and the names given to
\* dynamic commands.
RETurn == <<U("r"), U("e"), U("t"), L("u"), L("r"), L("n")>>
RETUxRn == <<U("r"), U("e"), U("t"), U("u"), L("x"), U("r"), L("n")>>
RETx == <<U("r"), U("e"), U("t"), L("x")>>
MAc == <<U("m"), U("a"), L("c")>>
StaticClasses == {RETurn}
DynamicNames == {RETUxRn, RETx, MAc}
Names == StaticClasses \cup DynamicNames

\* The keys of Branch.children and Branch.childclasses: n.lower() for the
\* alternate names n.
keysOf(name) == [i \in 1..3 |-> lower(alternateNames(name)[i])]
Keys == {keysOf(n)[i] : n \in Names, i \in 1..3}

NoClass == <<>>

\* Branch.addDefaultChildren: self.childclasses[n.lower()] = (cls, altnames, None)
childclasses ==
    [k \in Keys |->
        IF \E c \in StaticClasses : \E i \in 1..3 : keysOf(c)[i] = k
        THEN CHOOSE c \in StaticClasses : \E i \in 1..3 : keysOf(c)[i] = k
        ELSE NoClass]

NoNode == [id |-> 0, name |-> <<>>, dyn |-> FALSE, modifyAccess |-> GUEST]
NoJob == [op |-> "none", obj |-> NoNode, todo |-> <<>>, key |-> <<>>]
NoModifyAccess == 0 - 1              \* modifyAccess=None

\* Branch.init: no child is instantiated; no session works on the tree.
TreeIdle ==
    /\ tchildren = [k \in Keys |-> NoNode]
    /\ tpc = [s \in Clients |-> "idle"]
    /\ tjob = [s \in Clients |-> NoJob]
    /\ tresult = [s \in Clients |-> "none"]
    /\ tlooked = {}
    /\ nobj = 0
    /\ ntree = 0

(***************************************************************************)
(* Variables: the three scopes of server/commands/variable_leafs.py and    *)
(* tools/dataproxy.py.  A map is a Python dict, modelled as a function     *)
(* whose domain is the set of names it holds.  A stored value is a str or  *)
(* a list of str; a str is written as the sequence of its words, so that   *)
(* ' '.join(list) is the str with the same words.                          *)
(***************************************************************************)
MaxVarOps == 2                       \* variable commands and macro runs per behaviour
MaxWords == 2                        \* longest list that -extend builds

LocalScope == 0                      \* LOCAL, VariableScopes.index('local')
BranchScope == 1                     \* BRANCH
GlobalScope == 2                     \* GLOBAL
NoScope == 0 - 1                     \* -scope not given (None)

VarNames == {"x", "y"}
Words == {"a", "b"}
Branches == {"Top"}                  \* the branches that hold VARiable leaves

EmptyMap == [n \in {} |-> <<>>]      \* {}

strValue(words) == [kind |-> "str", words |-> words]
listValue(words) == [kind |-> "list", words |-> words]

\* data[name] = value
setItem(data, name, value) ==
    [n \in (DOMAIN data) \cup {name} |-> IF n = name THEN value ELSE data[n]]

\* data.update(parameters)
update(data, parameters) ==
    [n \in (DOMAIN data) \cup (DOMAIN parameters) |->
        IF n \in DOMAIN parameters THEN parameters[n] ELSE data[n]]

KeyError == [found |-> FALSE, scope |-> NoScope, value |-> listValue(<<>>)]

RECURSIVE firstHolder(_, _, _)
\* The loop of DataProxy.getScopeDataValue over enumerate(self._maps), from
\* position index on: the index of the first map that holds the identifier.
firstHolder(maps, index, identifier) ==
    IF index >= Len(maps) THEN NoScope
    ELSE IF identifier \in DOMAIN maps[index + 1] THEN index
    ELSE firstHolder(maps, index + 1, identifier)

\* DataProxy.getScopeDataValue(scope, identifier), identifier given.
getScopeDataValue(maps, scope, identifier) ==
    LET index == IF scope # NoScope THEN scope ELSE firstHolder(maps, 0, identifier) IN
    IF index # NoScope /\ identifier \in DOMAIN maps[index + 1]
    THEN [found |-> TRUE, scope |-> index, value |-> maps[index + 1][identifier]]
    ELSE KeyError

\* DataProxy.getValue(value) without a key, then DataProxy.toString: the str
\* that a reference yields, as the sequence of its words.
getValue(value) == listValue(value.words)
toString(value) == value.words

\* VariableLeaf.dataProxy(scope, localdata, identifier, datatype=list,
\* default=[]): a missing name falls back to the given scope, or to
\* defaultScope when none is given, with the default as its value.
dataProxy(maps, scope, identifier, defaultScope) ==
    LET r == getScopeDataValue(maps, scope, identifier) IN
    IF r.found
    THEN [r EXCEPT !.value = listValue(r.value.words)]
    ELSE [found |-> FALSE,
          scope |-> IF scope = NoScope THEN defaultScope ELSE scope,
          value |-> listValue(<<>>)]

\* VARiable_Set.run with one value: the scope chosen and the maps afterwards.
VARiable_Set_run(maps, scope, extend, create, name, word) ==
    LET new == create \/ ~extend
        chosen == IF scope = NoScope /\ new THEN LocalScope ELSE scope
        r == dataProxy(maps, chosen, name, LocalScope)
        stored == IF extend THEN listValue(Append(r.value.words, word))
                  ELSE strValue(<<word>>)
    IN [scope |-> r.scope,
        maps |-> [maps EXCEPT ![r.scope + 1] = setItem(@, name, stored)]]

\* A VARiable= command line of a macro body.
SetCommands ==
    {c \in [scope : {NoScope, LocalScope, BranchScope, GlobalScope}, extend : BOOLEAN,
            create : BOOLEAN, name : VarNames, word : Words] : c.create => c.extend}

NoVarResult == [op |-> "none", outcome |-> "none", value |-> <<>>, scope |-> NoScope]

\* No variable is defined: Base.globalData = {}, branchData and Context.data
\* are created empty.
VarsIdle ==
    /\ vlocal = [s \in Clients |-> EmptyMap]
    /\ vbranch = [b \in Branches |-> EmptyMap]
    /\ vglobal = EmptyMap
    /\ vresult = NoVarResult
    /\ nvar = 0

(***************************************************************************)
(* ClientSession.getInstances(ClientSession): the live client sessions     *)
(***************************************************************************)
getInstances == {s \in Clients : phase[s] # "none"}

(***************************************************************************)
(* ClientSession.nonExclusiveLimit, with self.accessLimit = limit          *)
(***************************************************************************)
nonExclusiveLimit(s, limit) ==
    IF exclusive \in {s, NoSession}
    THEN limit
    ELSE Min(limit, Max(GUEST, accessLevel[exclusive] - 1))

(***************************************************************************)
(* A client connects: ClientSession.__init__ (limits from the interface    *)
(* settings, level = min(defaultAccess, nonExclusiveLimit())), then        *)
(* NetworkSession.setup enters runHooks, which saves the level in          *)
(* originalAccess and raises it to `access` (ADMINISTRATOR) for the hooks. *)
(***************************************************************************)
Connect(s) ==
    /\ nops < MaxOps
    /\ s \in Clients
    /\ phase[s] = "none"
    /\ phase' = [phase EXCEPT ![s] = "enter"]
    /\ authLimit' = [authLimit EXCEPT ![s] = accessinfo.authLimits]
    /\ accessLimit' = [accessLimit EXCEPT ![s] = accessinfo.accessLimits]
    /\ originalAccess' = [originalAccess EXCEPT ![s] =
                            Min(accessinfo.defaultAccess,
                                nonExclusiveLimit(s, accessinfo.accessLimits))]
    /\ accessLevel' = [accessLevel EXCEPT ![s] = ADMINISTRATOR]
    /\ stealthAccess' = [stealthAccess EXCEPT ![s] = FALSE]
    /\ result' = "none"
    /\ nops' = nops + 1
    /\ UNCHANGED <<accessinfo, exclusive>>
    /\ UNCHANGED accRest

(***************************************************************************)
(* End of runHooks in setup (its finally clause restores the level);       *)
(* READy is sent and the input loop starts.                                *)
(***************************************************************************)
setupDone(s) ==
    /\ s \in Clients
    /\ phase[s] = "enter"
    /\ accessLevel' = [accessLevel EXCEPT ![s] = originalAccess[s]]
    /\ originalAccess' = [originalAccess EXCEPT ![s] = GUEST]
    /\ phase' = [phase EXCEPT ![s] = "run"]
    /\ result' = "none"
    /\ UNCHANGED <<accessinfo, accessLimit, authLimit, stealthAccess, exclusive, nops>>
    /\ UNCHANGED accRest

(***************************************************************************)
(* The input stream closes: NetworkSession.cleanup enters runHooks for the *)
(* exit hooks, again at ADMINISTRATOR.                                     *)
(***************************************************************************)
Disconnect(s) ==
    /\ nops < MaxOps
    /\ s \in Clients
    /\ phase[s] = "run"
    /\ originalAccess' = [originalAccess EXCEPT ![s] = accessLevel[s]]
    /\ accessLevel' = [accessLevel EXCEPT ![s] = ADMINISTRATOR]
    /\ phase' = [phase EXCEPT ![s] = "exit"]
    /\ result' = "none"
    /\ nops' = nops + 1
    /\ UNCHANGED <<accessinfo, accessLimit, authLimit, stealthAccess, exclusive>>
    /\ UNCHANGED accRest

(***************************************************************************)
(* End of NetworkSession.cleanup: the finally clause of runHooks restores  *)
(* the level.  When every exit hook succeeded, ClientSession.cleanup and   *)
(* BaseSession.cleanup follow: the exclusive slot is released when this    *)
(* session holds it.  When a hook failed (runHooks returns False, or an    *)
(* exception other than Error leaves it) the base cleanup is not called:   *)
(* a session holding the exclusive slot stays referenced by it ("ended"),  *)
(* any other session object is discarded.                                  *)
(***************************************************************************)
cleanup(s, hooksOK) ==
    /\ s \in Clients
    /\ phase[s] = "exit"
    /\ IF ~hooksOK /\ exclusive = s
       THEN /\ phase' = [phase EXCEPT ![s] = "ended"]
            /\ accessLevel' = [accessLevel EXCEPT ![s] = originalAccess[s]]
            /\ UNCHANGED <<exclusive, accessLimit, authLimit, stealthAccess>>
       ELSE /\ exclusive' = IF hooksOK /\ exclusive = s THEN NoSession ELSE exclusive
            /\ phase' = [phase EXCEPT ![s] = "none"]
            /\ accessLevel' = [accessLevel EXCEPT ![s] = GUEST]
            /\ accessLimit' = [accessLimit EXCEPT ![s] = GUEST]
            /\ authLimit' = [authLimit EXCEPT ![s] = GUEST]
            /\ stealthAccess' = [stealthAccess EXCEPT ![s] = FALSE]
    /\ originalAccess' = [originalAccess EXCEPT ![s] = GUEST]
    /\ result' = IF hooksOK THEN "cleanup" ELSE "exitHookFailed"
    /\ IF hooksOK
       THEN /\ ptopics' = clearTopics(ptopics, s)
            /\ pfilters' = _removeSubscriptions(pfilters, "", s, NoArgs)
            /\ pregistered' = {r \in pregistered : r.cb # s}
       ELSE UNCHANGED <<ptopics, pfilters, pregistered>>
    /\ UNCHANGED <<pdelayed, pmin, pdelivered, presult, npub>>
    /\ UNCHANGED <<accessinfo, nops>>
    /\ UNCHANGED <<execVars, macroVars, laterVars>>

(***************************************************************************)
(* The two guards of ClientSession.setAccessLevel, in the order of the     *)
(* code: exclusive access held by another session, then (for -exclusive)   *)
(* another non-stealth client session at or above the requested level.     *)
(***************************************************************************)
ExclusiveAccessGiven(s, level, excl, stealth) ==
    /\ ~stealth
    /\ exclusive \notin {s, NoSession}
    /\ (excl \/ level >= accessLevel[exclusive])

AccessGiven_above(s, level, excl, stealth) ==
    /\ excl
    /\ \E othersession \in getInstances :
          /\ othersession # s
          /\ accessLevel[othersession] > level
          /\ ~stealthAccess[othersession]

AccessGiven(s, level, excl, stealth) ==
    /\ excl
    /\ \E othersession \in getInstances :
          /\ othersession # s
          /\ accessLevel[othersession] >= level
          /\ ~stealthAccess[othersession]

(***************************************************************************)
(* The guard of BaseSession.setAccessLevel                                 *)
(***************************************************************************)
AccessLevelExceeded_authLimit(s, level) == level > authLimit[s]

AccessLevelExceeded(s, level) == level > accessLimit[s]

(***************************************************************************)
(* The assignments of BaseSession.setAccessLevel                           *)
(***************************************************************************)
BaseSetAccessLevel(s, level, excl, stealth) ==
    /\ accessLevel' = [accessLevel EXCEPT ![s] = level]
    /\ stealthAccess' = [stealthAccess EXCEPT ![s] = stealth]
    /\ exclusive' = IF excl /\ ~stealth THEN s
                    ELSE IF exclusive = s THEN NoSession
                    ELSE exclusive

(***************************************************************************)
(* ClientSession.setAccessLevel as run by the ACCess leaf for a client     *)
(* session.  After BaseSession.setAccessLevel has made its assignments the *)
(* method calls self.notify(DEBUG, T_ACCESS, ...); T_ACCESS is not         *)
(* imported by client_session.py, so the call ends in a NameError after    *)
(* the state has changed.                                                  *)
(***************************************************************************)
setAccessLevelOutcome(s, level, excl, stealth) ==
    IF ExclusiveAccessGiven(s, level, excl, stealth) THEN "ExclusiveAccessGiven"
    ELSE IF AccessGiven(s, level, excl, stealth) THEN "AccessGiven"
    ELSE IF AccessLevelExceeded(s, level) THEN "AccessLevelExceeded"
    ELSE "NameError"

setAccessLevel(s, level, excl, stealth) ==
    /\ result' = setAccessLevelOutcome(s, level, excl, stealth)
    /\ IF setAccessLevelOutcome(s, level, excl, stealth) = "NameError"
       THEN BaseSetAccessLevel(s, level, excl, stealth)
       ELSE UNCHANGED <<accessLevel, stealthAccess, exclusive>>

ACCess(s, level, excl, stealth) ==
    /\ nops < MaxOps
    /\ s \in Clients
    /\ phase[s] = "run"
    /\ setAccessLevel(s, level, excl, stealth)
    /\ nops' = nops + 1
    /\ UNCHANGED <<accessinfo, phase, accessLimit, authLimit, originalAccess>>
    /\ UNCHANGED accRest

(***************************************************************************)
(* BaseSession.authenticatedLevel and BaseSession.authorize                *)
(***************************************************************************)
authenticatedLevel(specvalue, current, limit) ==
    LET level == IF specvalue = NoKey THEN current ELSE specvalue
    IN  IF level > limit THEN limit ELSE level

authorize(s, specLevel, specLimit) ==
    /\ nops < MaxOps
    /\ s \in Clients
    /\ phase[s] = "run"
    /\ LET limit == authenticatedLevel(specLimit, accessLimit[s], authLimit[s])
           level == authenticatedLevel(specLevel, accessLevel[s], limit)
       IN  /\ accessLevel' = [accessLevel EXCEPT ![s] = level]
           /\ accessLimit' = [accessLimit EXCEPT ![s] = limit]
    /\ result' = "authorized"
    /\ nops' = nops + 1
    /\ UNCHANGED <<accessinfo, phase, authLimit, stealthAccess, originalAccess, exclusive>>
    /\ UNCHANGED accRest

(***************************************************************************)
(* Macro.runMacro of a macro that is not inline: it constructs a           *)
(* MacroSession, and NestedSession.__init__ assigns self.parent, whose     *)
(* setter calls weakref.ref; nested_session.py does not import weakref, so *)
(* the constructor ends in a NameError before the body is read.  (An       *)
(* inline macro runs its body in the calling session: an ACCess in it is   *)
(* the action ACCess.)                                                     *)
(***************************************************************************)
runMacro(s, access) ==
    /\ nops < MaxOps
    /\ s \in Clients
    /\ phase[s] = "run"
    /\ result' = "NameError"
    /\ nops' = nops + 1
    /\ UNCHANGED <<accessinfo, phase, accessLevel, accessLimit, authLimit,
                   stealthAccess, originalAccess, exclusive>>
    /\ UNCHANGED accRest

(***************************************************************************)
(* SpecExec: one client session (session 1) executing command lines        *)
(***************************************************************************)
MaxCmds == 2                         \* command lines read per behaviour
Cmds == 1..MaxCmds                   \* a line's arrival number, sent as its index

\* The leaves of the command tree.  SING_A and SING_B are two incarnations
\* of one Singleton leaf class, under two branches.
Leaves == {"QUERY", "VARiable_Set", "ACCess", "RUN", "SING_A", "SING_B"}
NOPE == "NOPE"                       \* a command name no branch knows

\* leaf.py access mix-ins: Public, Observing, Controlling
requiredAccess(l) ==
    CASE l = "VARiable_Set" -> CONTROLLER
      [] l = "RUN" -> OBSERVER
      [] OTHER -> GUEST

\* leaf.py mix-ins Asynchronous and Singleton
asynchronous(l) == l \in {"RUN", "SING_A", "SING_B"}
singleton(l) == l \in {"SING_A", "SING_B"}

NoError == [name |-> "none", requiredAccess |-> 0, currentAccess |-> 0]
Error(name) == [name |-> name, requiredAccess |-> 0, currentAccess |-> 0]
NoOutputs == [leaf |-> "none", response |-> 0, outs |-> 0]
NoInvocation == [leaf |-> "none", level |-> 0, prerun |-> "none", run |-> "none",
                 postrun |-> 0, signal |-> "none"]
NoWorker == [st |-> "none", echo |-> 0]
NoLine == [kind |-> "none", outcome |-> "none", substituted |-> FALSE]

\* The values of the SpecExec variables while no command is being executed.
ExecIdle ==
    /\ nread = 0
    /\ inThread = "read"
    /\ cur = "none"
    /\ context = [index |-> 0, leaf |-> "none", response |-> 0, outputs |-> 0]
    /\ workers = [c \in Cmds |-> NoWorker]
    /\ writeQueue = <<>>
    /\ wire = <<>>
    /\ jobs = {}
    /\ inv = [c \in Cmds |-> NoInvocation]
    /\ runLock = FALSE
    /\ children = {}
    /\ variables = 0
    /\ lastLine = NoLine

\* The values of the SpecMacro variables while no macro is being run.
MacroIdle ==
    /\ mbody = <<>>
    /\ minline = FALSE
    /\ mpc = 0
    /\ mrun = "idle"
    /\ mworker = "none"
    /\ mecho = "none"
    /\ mtext = "macro"
    /\ mexec = <<>>
    /\ mreplies = <<>>
    /\ mjobs = {}
    /\ mnext = FALSE

(***************************************************************************)
(* Binding of parts to the parameters of a leaf (base/leaf.py).  A part is *)
(* its option name (NoOption for a positional part); the value of the      *)
(* k-th part is written k, so that every part can be told from the others. *)
(***************************************************************************)
MaxParts == 3                        \* parts of one command line

NoOption == ""                       \* a part without -name

\* Parameter(name, named, repeats, default): rmin is the minimum of
\* repeats (0 for None), required says that the default is Missing.
ParamX == [name |-> "x", named |-> FALSE, repeats |-> FALSE, rmin |-> 0, required |-> TRUE]
ParamY == [name |-> "y", named |-> FALSE, repeats |-> FALSE, rmin |-> 0, required |-> TRUE]
ParamValues(rmin) ==
    [name |-> "values", named |-> FALSE, repeats |-> TRUE, rmin |-> rmin, required |-> FALSE]

\* The inputs declared by `def run (self, x=str, y=str, *values)`, and by
\* `def run (self, x=str, *values)` with setInput('values', repeats=(2, None)).
Declarations == {<<ParamX, ParamY, ParamValues(0)>>, <<ParamX, ParamValues(2)>>}

Options == {NoOption, "x", "y", "values", "z"}

\* The part lists of up to MaxParts parts.
PartLists == UNION {[1..n -> Options] : n \in 0..MaxParts}

ParamNames(decl) == {decl[i].name : i \in DOMAIN decl}

\* Leaf.getInput(name): the declared parameter of this name.
getInput(decl, name) == CHOOSE p \in {decl[i] : i \in DOMAIN decl} : p.name = name

\* posparams.remove(param), ignoring the ValueError of an absent one.
RECURSIVE removeParam(_, _)
removeParam(posparams, name) ==
    IF posparams = <<>> THEN <<>>
    ELSE IF Head(posparams) = name THEN Tail(posparams)
    ELSE <<Head(posparams)>> \o removeParam(Tail(posparams), name)

\* self.varParam: the repeating positional parameter, if one is declared.
varParam(decl) == {decl[i] : i \in {j \in DOMAIN decl : decl[j].repeats /\ ~decl[j].named}}

\* The positional parameters that mapParts starts with, in declaration order.
RECURSIVE posParams(_)
posParams(decl) ==
    IF decl = <<>> THEN <<>>
    ELSE IF ~Head(decl).named /\ ~Head(decl).repeats
         THEN <<Head(decl).name>> \o posParams(Tail(decl))
         ELSE posParams(Tail(decl))

\* mapped[param.name] = value for a parameter that does not repeat: the
\* value replaces one bound before.
bindValue(mapped, name, value) == [mapped EXCEPT ![name] = <<value>>]

\* The same, for a mutant that refuses nothing but keeps every value.
bindValue_keep(mapped, name, value) == [mapped EXCEPT ![name] = Append(@, value)]

RECURSIVE mapParts(_, _, _, _, _)
\* Leaf.mapParts from part i on: mapped gives, for every parameter, the
\* values it holds (none when the name is not in the dict); bound gives the
\* parameter that each part was mapped to.
mapParts(decl, parts, i, posparams, st) ==
    IF i > Len(parts) THEN st
    ELSE LET option == parts[i] IN
         IF option # NoOption /\ option \notin ParamNames(decl)
         THEN [st EXCEPT !.error = "NoSuchCommandOption"]
         ELSE IF option = NoOption /\ posparams = <<>> /\ varParam(decl) = {}
         THEN [st EXCEPT !.error = "ExtraArgument"]
         ELSE LET param == IF option # NoOption THEN getInput(decl, option)
                           ELSE IF posparams # <<>> THEN getInput(decl, Head(posparams))
                           ELSE CHOOSE p \in varParam(decl) : TRUE
                  rest == IF option # NoOption
                          THEN IF param.repeats THEN posparams
                               ELSE removeParam(posparams, param.name)
                          ELSE IF posparams # <<>> THEN Tail(posparams)
                          ELSE posparams
                  mapped == IF param.repeats
                            THEN [st.mapped EXCEPT ![param.name] = Append(@, i)]
                            ELSE bindValue(st.mapped, param.name, i)
              IN mapParts(decl, parts, i + 1, rest,
                          [st EXCEPT !.mapped = mapped,
                                     !.bound = Append(@, param.name)])

RECURSIVE parseLoop(_, _, _, _)
\* The loop of Leaf.parseInputs over the parameters from position k on:
\* missing says that Missing has been appended to args.
parseLoop(decl, mapped, k, missing) ==
    IF k > Len(decl) THEN (IF missing THEN "MissingArgument" ELSE "ok")
    ELSE LET param == decl[k]
             arg == mapped[param.name] IN
         IF ~param.repeats
         THEN parseLoop(decl, mapped, k + 1, missing \/ (arg = <<>> /\ param.required))
         ELSE IF arg = <<>> /\ param.rmin > 0
         THEN parseLoop(decl, mapped, k + 1, TRUE)
         ELSE IF Len(arg) < param.rmin THEN "TooFewRepeats"
         ELSE parseLoop(decl, mapped, k + 1, missing)

\* Leaf.parseInputs(parts): the outcome, the values of the parameters and
\* the parameter each part was mapped to.
parseInputs(decl, parts) ==
    LET st == mapParts(decl, parts, 1, posParams(decl),
                       [mapped |-> [n \in ParamNames(decl) |-> <<>>],
                        bound |-> <<>>, error |-> "none"]) IN
    [outcome |-> IF st.error # "none" THEN st.error
                 ELSE parseLoop(decl, st.mapped, 1, FALSE),
     mapped |-> st.mapped, bound |-> st.bound]

NoBinding == [outcome |-> "none", mapped |-> <<>>, bound |-> <<>>]

\* No command line is being bound.
BindIdle ==
    /\ bdecl = <<>>
    /\ bparts = <<>>
    /\ bresult = NoBinding

\* ===========================================================================
\* The handshake of a network session (SpecReady)
\* ===========================================================================
\* NetworkSession.setup runs the enter hooks and sends READy; BaseSession.handle
\* then reads the client's commands unless the context carries an exception.

MaxHooks == 2     \* enter hooks of the session
MaxInput == 2     \* command lines the client sends

\* What the text of one enter hook does when runBlock runs it:
\*   "sync"      every command returns normally
\*   "Error"     a command raises an Error
\*   "NEXT"      a NEXT command or an asynchronous leaf: runStream and runParts
\*               call startThread and the rest runs in a worker thread
\*   "RETurn"    a RETurn or BREak command (caught, catchReturn=True)
\*   "NameError" scope.locate raises an exception that is no Error (MACRo+)
HookKinds == {"sync", "Error", "NEXT", "RETurn", "NameError"}

HookLists == UNION {[1..n -> HookKinds] : n \in 0..MaxHooks}

\* The lines written to the client.
hookLine(i, word) == [word |-> word, from |-> "hook", n |-> i]

commandLine(i, word) == [word |-> word, from |-> "client", n |-> i]

readyLine == [word |-> "READy", from |-> "session", n |-> 0]

ReadyIdle ==
    /\ hhooks = <<>>
    /\ hpc = "closed"
    /\ hidx = 1
    /\ hwire = <<>>
    /\ hthreads = {}
    /\ hexception = FALSE
    /\ hcmds = 0

\* ===========================================================================
\* The client library: pending commands and the loss of the connection
\* (SpecClient)
\* ===========================================================================

MaxSend == 2      \* commands the application sends

CommandIndexes == 1..MaxSend

\* A client is connected with or without a receive thread
\* (connect(threaded=...)) and reconnects on demand or not (autoconnect).
ClientConfigs == [threaded : BOOLEAN, autoconnect : BOOLEAN]

\* BaseClient.on_disconnect: is_connected = False, and the exception is put
\* into the queue of every entry of self.pending.
on_disconnect(keys, queues) ==
    [i \in CommandIndexes |->
        IF i \in keys THEN Append(queues[i], "SCPIDisconnected") ELSE queues[i]]

\* BaseClient._processResponse: the response goes into the queue of the
\* pending command that the index names.
_processResponse(queues, i, status) == [queues EXCEPT ![i] = Append(@, status)]

ClientIdle ==
    /\ cconfig = [threaded |-> FALSE, autoconnect |-> FALSE]
    /\ cstream = "lost"
    /\ is_connected = FALSE
    /\ is_receiving = "no"
    /\ pending = {}
    /\ cqueue = [i \in CommandIndexes |-> <<>>]
    /\ commandIndex = 0
    /\ csender = "idle"
    /\ clast = [calls |-> 0, after |-> FALSE, outcome |-> "none"]
    /\ cwaiter = [i \in CommandIndexes |-> "none"]

\* ===========================================================================
\* CommandParser: collapsing parts to text and parsing the text (SpecParse)
\* ===========================================================================
\* A string is a sequence of characters.  The characters are those that make
\* collapseArgs and expandArgs take their different paths: a letter, the dash
\* that starts an option, the hash that starts a comment, the space and the
\* double quote that protectString escapes.

MaxChars == 2        \* characters of a value
MaxRoundTrip == 2    \* parts of a part list

Chars == {"x", "-", "#", " ", "\""}

Letters == {"x", "o"}

None == <<"None">>

Strings == UNION {[1..n -> Chars] : n \in 0..MaxChars}

OptionNames == {<<"o">>}

\* (option, cooked value): a positional value, a bare option, an option with
\* a value.
Parts ==
    [option : {None}, value : Strings]
        \cup [option : OptionNames, value : Strings \cup {None}]

PartListsOfParser == UNION {[1..n -> Parts] : n \in 0..MaxRoundTrip}

\* _protectEscapes: the characters that make protectString quote the string
_protectEscapes == {" ", "\"", "\\", "$", "'", "(", ")", "<", ">", "[", "]", "{", "}"}

\* CommandParser._escape(string, keep="'", quote='"') without the quotes
RECURSIVE _escape(_)
_escape(string) ==
    IF string = <<>> THEN <<>>
    ELSE LET c == Head(string) IN
         (IF c \in {"\"", "\\", "$"} THEN <<"\\", c>> ELSE <<c>>) \o _escape(Tail(string))

\* CommandParser.protectString(text, tag='', quoting=QUOTE_AUTO) for strings
\* without newline and control characters
protectString(text) ==
    LET string == IF text = None THEN <<>> ELSE text IN
    IF string = <<>> \/ \E k \in DOMAIN string : string[k] \in _protectEscapes
       THEN <<"\"">> \o _escape(string) \o <<"\"">>
       ELSE string

\* CommandParser.collapsePart(part, tag='', quoting=QUOTE_AUTO)
collapsePart(part) ==
    IF part.option # None /\ part.value # None
       THEN <<"-">> \o part.option \o <<"=">> \o protectString(part.value)
    ELSE IF part.option # None
       THEN <<"-">> \o part.option
    ELSE protectString(part.value)

\* CommandParser.collapseArgs(parts): ' '.join(collapseParts(parts))
RECURSIVE collapseArgs(_)
collapseArgs(parts) ==
    IF parts = <<>> THEN <<>>
    ELSE IF Len(parts) = 1 THEN collapsePart(parts[1])
    ELSE collapsePart(Head(parts)) \o <<" ">> \o collapseArgs(Tail(parts))

\* --- the tokens of _tokens that these characters can form ---

RECURSIVE spaceEnd(_, _)
spaceEnd(text, p) ==
    IF p <= Len(text) /\ text[p] = " " THEN spaceEnd(text, p + 1) ELSE p

NoToken == [group |-> "none", start |-> 0, end |-> 0]

\* The token of the given kinds that starts at position p, if any.
\*   SPACE       (?:^|\s+)\#.*|\s+
\*   OPTION      (?:^|(?<=\s))\-(?=[a-zA-Z\.\:\_])
tokenAt(text, p, kinds) ==
    LET c == text[p] IN
    IF "space" \in kinds /\ p = 1 /\ c = "#"
       THEN [group |-> "space", start |-> p, end |-> Len(text) + 1]
    ELSE IF "space" \in kinds /\ c = " "
       THEN LET q == spaceEnd(text, p) IN
            [group |-> "space", start |-> p,
             end |-> IF q <= Len(text) /\ text[q] = "#" THEN Len(text) + 1 ELSE q]
    ELSE IF "backslash" \in kinds /\ c = "\\"
       THEN [group |-> "backslash", start |-> p, end |-> p + 1]
    ELSE IF /\ "option" \in kinds
            /\ c = "-"
            /\ (p = 1 \/ text[p - 1] = " ")
            /\ p < Len(text)
            /\ text[p + 1] \in Letters
       THEN [group |-> "option", start |-> p, end |-> p + 1]
    ELSE IF "doublequote" \in kinds /\ c = "\""
       THEN [group |-> "doublequote", start |-> p, end |-> p + 1]
    ELSE IF "equalsign" \in kinds /\ c = "="
       THEN [group |-> "equalsign", start |-> p, end |-> p + 1]
    ELSE NoToken

\* regexp.search(text, pos): the leftmost token from pos on
RECURSIVE search(_, _, _)
search(text, pos, kinds) ==
    IF pos > Len(text) THEN NoToken
    ELSE IF tokenAt(text, pos, kinds) # NoToken THEN tokenAt(text, pos, kinds)
    ELSE search(text, pos + 1, kinds)

_argX == {"space", "backslash", "option", "doublequote"}

_optX == {"space", "backslash", "doublequote", "equalsign"}

_optArgX == {"space", "backslash", "doublequote"}

_dqX == {"doublequote", "backslash"}

\* The result of _expandText: an argument (None when it has no parts), the
\* position after it and the last token; or the Option exception of
\* _process_option; or a ParseError.
expanded(arg, pos, token) ==
    [status |-> "arg", arg |-> arg, pos |-> pos, token |-> token,
     option |-> None]

\* CommandParser._expandText(text, pos, instream, regexp, skip, end); parts is
\* the text of the parts so far, has tells whether there are any.
RECURSIVE _expandText(_, _, _, _, _, _, _, _)
_expandText(text, pos, regexp, skip, end, parts, has, token) ==
    IF pos > Len(text)
       THEN expanded(IF has THEN parts ELSE None, pos, token)
    ELSE
    LET found == search(text, pos, regexp) IN
    IF found = NoToken
       THEN expanded(parts \o SubSeq(text, pos, Len(text)), Len(text) + 1, "none")
    ELSE
    LET intro  == SubSeq(text, pos, found.start - 1)
        parts1 == parts \o intro
        has1   == has \/ intro # <<>>
        next   == found.end
    IN
    IF intro = <<>> /\ ~has /\ found.group \in skip
       THEN _expandText(text, next, regexp, skip, end, parts, has, found.group)
    ELSE IF found.group \in end
       THEN expanded(parts1, next, found.group)
    ELSE IF found.group = "backslash"
       THEN \* _process_backslash: a backslash before the end of the line
            \* continues the line, and there is no further line
            IF spaceEnd(text, next) > Len(text)
               THEN [expanded(None, next, found.group) EXCEPT !.status = "ParseError"]
               ELSE _expandText(text, next + 1, regexp, skip, end,
                                parts1 \o <<text[next]>>, TRUE, found.group)
    ELSE IF found.group = "doublequote"
       THEN \* _process_doublequote
            LET quoted == _expandText(text, next, _dqX, {}, {"doublequote"},
                                      <<>>, FALSE, "none") IN
            IF quoted.status # "arg" \/ quoted.token # "doublequote"
               THEN [quoted EXCEPT !.status = "ParseError"]
               ELSE _expandText(text, quoted.pos, regexp, skip, end,
                                parts1 \o quoted.arg, TRUE, found.group)
    ELSE \* _process_option raises Option(option, arg, text, pos)
         LET name == _expandText(text, next, _optX, {}, {"space", "equalsign"},
                                 <<>>, FALSE, "none") IN
         IF name.status # "arg" THEN name
         ELSE IF name.token = "equalsign"
            THEN LET arg == _expandText(text, name.pos, _optArgX, {}, {"space"},
                                        <<>>, FALSE, "none") IN
                 IF arg.status # "arg" THEN arg
                 ELSE [arg EXCEPT !.status = "Option", !.option = name.arg]
            ELSE [name EXCEPT !.status = "Option", !.option = name.arg,
                              !.arg = None]

\* CommandParser.getArg(text, pos)
getArg(text, pos) ==
    _expandText(text, pos, _argX, {"space"}, {"space"}, <<>>, FALSE, "none")

\* CommandParser.expandArgs(text): the (option, value) pairs of the parts, or
\* a ParseError
RECURSIVE expandArgsFrom(_, _, _)
expandArgsFrom(text, pos, parts) ==
    LET got == getArg(text, pos) IN
    IF got.status = "ParseError" THEN [status |-> "ParseError", parts |-> parts]
    ELSE IF got.option = None /\ got.arg = None
       THEN [status |-> "parsed", parts |-> parts]
    ELSE expandArgsFrom(text, got.pos,
                        Append(parts, [option |-> got.option, value |-> got.arg]))

expandArgs(text) == expandArgsFrom(text, 1, <<>>)

NotParsed == [status |-> "none", parts |-> <<>>]

ParseIdle ==
    /\ pparts = <<>>
    /\ ptext = None
    /\ pparsed = NotParsed

\* ===========================================================================
\* The access level of macro bodies (SpecMacroAccess)
\* ===========================================================================

MaxMacroOps == 2     \* MACRo+ commands and macro calls per behaviour

\* A macro object as MACRo_Add.run fills it in: obj.access is the -access
\* option or the level of the defining session, never above that level.
MacroObjects ==
    {m \in [access : AccessLevels, creator : {CONTROLLER, ADMINISTRATOR},
            inline : BOOLEAN] : m.access <= m.creator}

NoMacroResult == [op |-> "none", caller |-> GUEST, access |-> GUEST,
                  outcome |-> "none", level |-> NoLevel]

MaccIdle ==
    /\ mmacro = [access |-> GUEST, creator |-> CONTROLLER, inline |-> FALSE]
    /\ mresult = NoMacroResult
    /\ mops = 0

\* ===========================================================================
\* BREak in nested execution scopes (SpecBreak)
\* ===========================================================================
\* A client command calls the inline macro 1; the macro k may call the macro
\* k + 1.  Each call is InlineMacro.runMacro: runBlock(text, _context,
\* catchReturn=True), one runStream loop per scope.

MaxDepth == 3          \* inline macros, each callable from the one before
MaxBreakBody == 2      \* commands in the body of a macro
MaxLevels == 2         \* the largest -levels given to BREak

\* A body command: a plain command, a call of the next macro, BREak with
\* levels 1..MaxLevels (0 stands for no BREak).
BodyCommands ==
    [kind : {"command", "call"}, levels : {0}]
        \cup [kind : {"BREak"}, levels : 1..MaxLevels]

MacroBodies == [1..MaxDepth -> [1..MaxBreakBody -> BodyCommands]]

\* The macro k + 1 exists only for k < MaxDepth.
callable(bodies) ==
    \A k \in 1..MaxDepth : \A i \in 1..MaxBreakBody :
        bodies[k][i].kind = "call" => k < MaxDepth

BrkIdle ==
    /\ bbodies = [k \in 1..MaxDepth |->
                     [i \in 1..MaxBreakBody |-> [kind |-> "command", levels |-> 0]]]
    /\ bstack = <<>>
    /\ bstate = "replied"

\* ===========================================================================
\* Session ids (SpecSession)
\* ===========================================================================
MaxSessions == 4       \* sessions constructed per behaviour

\* The session classes that are instantiated, and the classes they inherit
\* the attribute sessionIndex from, in method resolution order.
SessionClasses ==
    {"SocketSession", "TelnetSession", "SerialSession", "MacroSession",
     "ModuleSession", "DetachedSession", "InitSession"}

MRO(cls) ==
    CASE cls = "SocketSession" ->
            <<"SocketSession", "NetworkSession", "ClientSession", "BaseSession">>
      [] cls = "TelnetSession" ->
            <<"TelnetSession", "NetworkSession", "ClientSession", "BaseSession">>
      [] cls = "SerialSession" -> <<"SerialSession", "ClientSession", "BaseSession">>
      [] cls = "MacroSession" -> <<"MacroSession", "NestedSession", "BaseSession">>
      [] cls = "ModuleSession" -> <<"ModuleSession", "NestedSession", "BaseSession">>
      [] cls = "DetachedSession" ->
            <<"DetachedSession", "MacroSession", "NestedSession", "BaseSession">>
      [] cls = "InitSession" ->
            <<"InitSession", "DetachedSession", "MacroSession", "ModuleSession",
              "NestedSession", "BaseSession">>

\* cls.__name__[0]
initial(cls) ==
    CASE cls \in {"SocketSession", "SerialSession"} -> "S"
      [] cls = "TelnetSession" -> "T"
      [] cls \in {"MacroSession", "ModuleSession"} -> "M"
      [] cls = "DetachedSession" -> "D"
      [] cls = "InitSession" -> "I"

NoPrefix == "None"     \* id_prefix=None

RECURSIVE str(_)
\* str(n) for n >= 0: the decimal digits
str(n) ==
    LET digit == <<"0", "1", "2", "3", "4", "5", "6", "7", "8", "9">>[(n % 10) + 1]
    IN  IF n < 10 THEN <<digit>> ELSE Append(str(n \div 10), digit)

\* cls.sessionIndex as an attribute read: the value of the first class in
\* the resolution order that has the attribute in its own __dict__.
getattr_sessionIndex(index, cls) ==
    LET own == SelectSeq(MRO(cls), LAMBDA c : c \in DOMAIN index)
    IN  index[Head(own)]

\* nextSessionID(cls, prefix): `cls.sessionIndex += 1` reads the attribute
\* through the resolution order and binds the sum in cls itself.
nextSessionID(index, cls, prefix) ==
    LET n == getattr_sessionIndex(index, cls) + 1
    IN  [sessionIndex |-> [c \in DOMAIN index \cup {cls} |->
                              IF c = cls THEN n ELSE index[c]],
         sessionid |-> <<IF prefix = NoPrefix THEN initial(cls) ELSE prefix>> \o str(n)]

\* setRole(None): "-".join of the non-empty ones of ("Session", role, id)
debugTopic(sessionid) == <<"Session", "-">> \o sessionid

\* BaseSession before the first session: sessionIndex = 0, instances = [].
SessIdle ==
    /\ sessionIndex = [c \in {"BaseSession"} |-> 0]
    /\ instances = <<>>

(***************************************************************************)
(* SpecAccess                                                              *)
(***************************************************************************)
ProfileValues == {NoKey, OBSERVER, FULL}   \* 'level' / 'limit' of a profile
MacroAccess == {OBSERVER, FULL}            \* the macro's `access`

InitAccess ==
    /\ accessinfo \in [defaultAccess : {GUEST, CONTROLLER},
                       accessLimits : {CONTROLLER, FULL},
                       authLimits : {FULL}]
    /\ phase = [s \in Sessions |-> "none"]
    /\ accessLevel = [s \in Sessions |-> GUEST]
    /\ accessLimit = [s \in Sessions |-> GUEST]
    /\ authLimit = [s \in Sessions |-> GUEST]
    /\ stealthAccess = [s \in Sessions |-> FALSE]
    /\ originalAccess = [s \in Sessions |-> GUEST]
    /\ exclusive = NoSession
    /\ result = "none"
    /\ nops = 0
    /\ ExecIdle
    /\ MacroIdle
    /\ PubIdle
    /\ DispIdle
    /\ TreeIdle
    /\ VarsIdle
    /\ SessIdle
    /\ BrkIdle
    /\ MaccIdle
    /\ ParseIdle
    /\ ClientIdle
    /\ ReadyIdle
    /\ BindIdle

NextAccess ==
    \/ \E s \in Clients : Connect(s)
    \/ \E s \in Clients : setupDone(s)
    \/ \E s \in Clients : Disconnect(s)
    \/ \E s \in Clients, hooksOK \in BOOLEAN : cleanup(s, hooksOK)
    \/ \E s \in Clients, level \in AccessLevels, excl \in BOOLEAN, stealth \in BOOLEAN :
          ACCess(s, level, excl, stealth)
    \/ \E s \in Clients, specLevel \in ProfileValues, specLimit \in ProfileValues :
          authorize(s, specLevel, specLimit)
    \/ \E s \in Clients, access \in MacroAccess : runMacro(s, access)

SpecAccess == InitAccess /\ [][NextAccess]_vars

(***************************************************************************)
(* BaseSession.checkAccess: TRUE when it raises InsufficientAccess         *)
(***************************************************************************)
checkAccess_offByOne(level, required) == level < required - 1

checkAccess(level, required) == level < required

\* BaseSession.getLevelName: AccessLevels[index or self.accessLevel]
getLevelName(index, level) == IF index # 0 THEN index ELSE level

InsufficientAccess(level, required) ==
    [name |-> "InsufficientAccess",
     requiredAccess |-> getLevelName(required, level),
     currentAccess |-> getLevelName(level, level)]

(***************************************************************************)
(* Context.getOutputs: the stored outputs when there are any, else the     *)
(* outputs of context.leaf formatted from context.response.                *)
(***************************************************************************)
getOutputs(ctx) ==
    IF ctx.outputs # 0 THEN [leaf |-> "none", response |-> 0, outs |-> ctx.outputs]
    ELSE IF ctx.leaf # "none" THEN [leaf |-> ctx.leaf, response |-> ctx.response, outs |-> 0]
    ELSE NoOutputs

(***************************************************************************)
(* ClientSession.respondOK / respondNext / respondError.  `cmd` and `src`  *)
(* record which command and which thread produced the reply.               *)
(***************************************************************************)
respondOK(echo, parts, cmd, src) ==
    [word |-> "OK", echo |-> echo, err |-> NoError, outputs |-> parts,
     cmd |-> cmd, src |-> src]

respondNext(echo, cmd, src) ==
    [word |-> "NEXT", echo |-> echo, err |-> NoError, outputs |-> NoOutputs,
     cmd |-> cmd, src |-> src]

respondError(echo, error, cmd, src) ==
    [word |-> "ERRor", echo |-> echo, err |-> error, outputs |-> NoOutputs,
     cmd |-> cmd, src |-> src]

(***************************************************************************)
(* SocketSession.send: writeQueue.put                                      *)
(***************************************************************************)
send_lifo(queue, item) == <<item>> \o queue

send(queue, item) == Append(queue, item)

(***************************************************************************)
(* SocketSession._outputHandler: write the next queued reply               *)
(***************************************************************************)
_outputHandler ==
    /\ writeQueue # <<>>
    /\ wire' = Append(wire, Head(writeQueue))
    /\ writeQueue' = Tail(writeQueue)
    /\ UNCHANGED execRest
    /\ UNCHANGED <<nread, inThread, cur, context, workers, jobs, inv, runLock,
                   children, variables, lastLine>>

(***************************************************************************)
(* What getCommand does with a line.                                       *)
(*   empty        - nothing but white space: command is None               *)
(*   syntax       - a syntax error (e.g. a mismatched closing bracket)     *)
(*   subst_syntax - `$(VARiable= x v)` followed by a part that fails to    *)
(*                  parse (e.g. `$(NOPE)`): the first substitution is run  *)
(*                  while the line is tokenized                            *)
(*   argref       - a command with a `$1` argument: _process_argument      *)
(*                  calls _getInputArgument, which checks OBSERVER access; *)
(*                  its exception is not wrapped in a ParseError           *)
(*   command      - a plain command                                        *)
(***************************************************************************)
LineKinds == {"empty", "syntax", "subst_syntax", "argref", "command"}

getCommandOutcome(kind) ==
    CASE kind = "empty" -> "None"
      [] kind \in {"syntax", "subst_syntax"} -> "ParseError"
      [] kind = "argref" -> IF checkAccess(accessLevel[1], OBSERVER)
                            THEN "InsufficientAccess" ELSE "command"
      [] OTHER -> "command"

(***************************************************************************)
(* ClientSession.handleInput: where the loop goes after getCommand.  None  *)
(* and ParseError continue the loop, EOFError leaves it, a command is run, *)
(* and any other exception leaves handleInput.                             *)
(***************************************************************************)
handleInputNext_breakOnParseError(outcome) ==
    CASE outcome = "None" -> "read"
      [] outcome = "command" -> "run"
      [] outcome \in {"EOFError", "ParseError"} -> "closed"
      [] OTHER -> "died"

handleInputNext(outcome) ==
    CASE outcome \in {"None", "ParseError"} -> "read"
      [] outcome = "command" -> "run"
      [] outcome = "EOFError" -> "closed"
      [] OTHER -> "died"

(***************************************************************************)
(* One pass of the input loop up to the point where a command is run:      *)
(* getCommand, then the ParseError handler or context.update.              *)
(***************************************************************************)
getCommand(kind, l) ==
    /\ inThread = "read"
    /\ nread < MaxCmds
    /\ nread' = nread + 1
    /\ LET outcome == getCommandOutcome(kind)
           substituted == kind = "subst_syntax"
                          /\ ~checkAccess(accessLevel[1], requiredAccess("VARiable_Set"))
       IN  /\ lastLine' = [kind |-> kind, outcome |-> outcome, substituted |-> substituted]
           /\ inThread' = handleInputNext(outcome)
           /\ variables' = IF substituted THEN nread + 1 ELSE variables
           /\ children' = IF kind = "subst_syntax"
                          THEN children \cup {"VARiable_Set"} ELSE children
           /\ writeQueue' = IF outcome = "ParseError"
                            THEN send(writeQueue,
                                      respondError(0, Error("ParseError"), nread + 1, "input"))
                            ELSE writeQueue
           /\ cur' = IF outcome = "command" THEN l ELSE "none"
           /\ context' = IF outcome = "command"
                         THEN [context EXCEPT !.index = nread + 1] ELSE context
    /\ UNCHANGED execRest
    /\ UNCHANGED <<workers, wire, jobs, inv, runLock>>

\* The client has sent its MaxCmds lines, has received every reply, and
\* closes the stream: getCommand raises EOFError.
EOF ==
    /\ inThread = "read"
    /\ nread = MaxCmds
    /\ writeQueue = <<>>
    /\ \A c \in Cmds : workers[c].st \in {"none", "done"}
    /\ inThread' = handleInputNext("EOFError")
    /\ UNCHANGED execRest
    /\ UNCHANGED <<nread, cur, context, workers, writeQueue, wire, jobs, inv,
                   runLock, children, variables, lastLine>>

(***************************************************************************)
(* Leaf.invoke: how many times it calls postrun itself once prerun has     *)
(* returned, given what execute() returned or raised.  On NextReply the    *)
(* call is left to invokeNext; the except and else clauses call it once.   *)
(***************************************************************************)
postrunCalls_notOnError(executed) ==
    IF executed \in {"ok", "ReturnValue", "Break"} THEN 1 ELSE 0

postrunCalls(executed) == IF executed = "NextReply" THEN 0 ELSE 1

RunOutcomes == {"ok", "RunError", "ReturnValue", "Break"}
RequestLevels == {GUEST, FULL}                 \* levels asked of ACCess

\* The inputs that make a difference for leaf l: run() of QUERY ends in any
\* of RunOutcomes and its arguments may fail to bind; the other leaves
\* return normally.
BindInputs(l) == IF l = "QUERY" THEN BOOLEAN ELSE {TRUE}
SyncInputs(l) == IF asynchronous(l) THEN BOOLEAN ELSE {FALSE}
OutInputs(l) == IF l = "QUERY" THEN RunOutcomes ELSE {"ok"}
LevelInputs(l) == IF l = "ACCess" THEN RequestLevels ELSE {GUEST}
CreatedInputs(l) == IF singleton(l) /\ l \notin children THEN BOOLEAN ELSE {TRUE}
LineLeaves(kind) ==
    IF kind = "command" THEN {"QUERY", "VARiable_Set", "ACCess", "RUN", "SING_A", NOPE}
    ELSE IF kind = "argref" THEN {"QUERY"}
    ELSE {"none"}

(***************************************************************************)
(* handleExceptions(context, self._run, ...) on the input thread: locate   *)
(* the leaf (Branch.getChild incarnates it on first use; Singleton.__new__ *)
(* then stores a new Lock on the class, and object.__new__ rejects the     *)
(* constructor arguments on Python 3: `created` is FALSE), Leaf.invoke     *)
(* (checkAccess, parseInputs, prerun, execute, postrun), the finally       *)
(* clause of _run, and the reply.  Inputs: whether the arguments bind,     *)
(* -synchronous, what run() does, the level asked of ACCess.               *)
(***************************************************************************)
handleExceptions(bind, sync, out, level, created) ==
    /\ inThread = "run"
    /\ LET l == cur
           c == nread
           echo == context.index
           found == l # NOPE
           isNew == found /\ l \notin children
           typeError == isNew /\ singleton(l) /\ ~created
           located == found /\ ~typeError
           lock0 == IF isNew /\ singleton(l) THEN FALSE ELSE runLock
           denied == located /\ checkAccess(accessLevel[1], requiredAccess(l))
           bound == located /\ ~denied /\ bind
           prerunRaised == bound /\ singleton(l) /\ lock0
           prerunOK == bound /\ ~prerunRaised
           lock1 == IF prerunOK /\ singleton(l) THEN TRUE ELSE lock0
           deferred == prerunOK /\ asynchronous(l) /\ ~sync
           runsNow == prerunOK /\ ~deferred
           executed == IF deferred THEN "NextReply"
                       ELSE IF l = "ACCess"
                            THEN setAccessLevelOutcome(1, level, FALSE, FALSE)
                            ELSE out
           posts == IF prerunOK THEN postrunCalls(executed) ELSE 0
           lock2 == IF singleton(l) /\ posts > 0 THEN FALSE ELSE lock1
           signal == IF ~found THEN "UnknownCommand"
                     ELSE IF typeError THEN "TypeError"
                     ELSE IF denied THEN "InsufficientAccess"
                     ELSE IF ~bound THEN "MissingArgument"
                     ELSE IF prerunRaised THEN "SingletonRunning"
                     ELSE executed
           ctx == IF located
                  THEN [context EXCEPT !.leaf = l,
                                       !.response = IF signal = "ok" THEN c ELSE 0,
                                       !.outputs = IF signal = "ReturnValue" THEN c ELSE 0]
                  ELSE context
           reply == CASE signal = "ok" -> respondOK(echo, getOutputs(ctx), c, "input")
                      [] signal = "ReturnValue" ->
                            respondOK(echo, [leaf |-> "none", response |-> 0, outs |-> c],
                                      c, "input")
                      [] signal = "Break" -> respondOK(echo, NoOutputs, c, "input")
                      [] signal = "NextReply" -> respondNext(echo, c, "input")
                      [] signal = "InsufficientAccess" ->
                            respondError(echo,
                                         InsufficientAccess(accessLevel[1], requiredAccess(l)),
                                         c, "input")
                      [] OTHER -> respondError(echo, Error(signal), c, "input")
       IN  /\ IF runsNow /\ l = "ACCess"
              THEN setAccessLevel(1, level, FALSE, FALSE)
              ELSE UNCHANGED <<result, accessLevel, stealthAccess, exclusive>>
           /\ variables' = IF runsNow /\ l = "VARiable_Set" /\ executed = "ok"
                           THEN c ELSE variables
           /\ children' = IF located THEN children \cup {l} ELSE children
           /\ runLock' = lock2
           /\ context' = ctx
           /\ inv' = [inv EXCEPT ![c] =
                        [leaf |-> IF located THEN l ELSE "none",
                         level |-> accessLevel[1],
                         prerun |-> IF prerunOK THEN "ok"
                                    ELSE IF prerunRaised THEN "raised" ELSE "none",
                         run |-> IF runsNow THEN "ended" ELSE "none",
                         postrun |-> posts,
                         signal |-> signal]]
           /\ workers' = IF deferred
                         THEN [workers EXCEPT ![c] = [st |-> "started", echo |-> 0]]
                         ELSE workers
           /\ writeQueue' = send(writeQueue, reply)
    /\ inThread' = "read"
    /\ cur' = "none"
    /\ UNCHANGED <<accessinfo, phase, accessLimit, authLimit, originalAccess, nops>>
    /\ UNCHANGED <<nread, wire, jobs, lastLine>>
    /\ UNCHANGED <<macroVars, pubVars, laterVars>>

(***************************************************************************)
(* Branch.getChild for a leaf class that is not yet incarnated under that  *)
(* branch, on behalf of any session (the command tree is shared): the      *)
(* class is instantiated.  Singleton.__new__ stores a new Lock on the      *)
(* class before object.__new__ is called.                                  *)
(***************************************************************************)
getChild(l, created) ==
    /\ l \notin children
    /\ singleton(l)
    /\ runLock' = FALSE
    /\ children' = IF created THEN children \cup {l} ELSE children
    /\ UNCHANGED execRest
    /\ UNCHANGED <<nread, inThread, cur, context, workers, writeQueue, wire, jobs,
                   inv, variables, lastLine>>

(***************************************************************************)
(* The thread made by startThread runs handleExceptions(nextcontext,       *)
(* self._next, ..., asynchronous=True) where nextcontext IS the session's  *)
(* context (the clone is commented out).  Its first statements read        *)
(* context.index into echo and add the job.                                *)
(***************************************************************************)
startThread(c) ==
    /\ workers[c].st = "started"
    /\ workers' = [workers EXCEPT ![c] = [st |-> "entered", echo |-> context.index]]
    /\ jobs' = jobs \cup {c}
    /\ UNCHANGED execRest
    /\ UNCHANGED <<nread, inThread, cur, context, writeQueue, wire, inv, runLock,
                   children, variables, lastLine>>

(***************************************************************************)
(* On the worker: _next calls Leaf.invokeNext, which calls run() and, in   *)
(* its finally clause, postrun (Singleton.postrun releases the class lock; *)
(* releasing an unlocked Lock raises RuntimeError).  A normal return is    *)
(* stored in context.response; an exception is answered at once.           *)
(***************************************************************************)
_next(c, out) ==
    /\ workers[c].st = "entered"
    /\ LET l == inv[c].leaf
           unlocked == singleton(l) /\ ~runLock
           signal == IF unlocked THEN "RuntimeError" ELSE out
       IN  /\ runLock' = IF singleton(l) THEN FALSE ELSE runLock
           /\ inv' = [inv EXCEPT ![c].run = "ended",
                                 ![c].postrun = inv[c].postrun + 1,
                                 ![c].signal = signal]
           /\ IF signal = "ok"
              THEN /\ context' = [context EXCEPT !.response = c]
                   /\ workers' = [workers EXCEPT ![c].st = "returned"]
                   /\ UNCHANGED <<writeQueue, jobs>>
              ELSE /\ writeQueue' = send(writeQueue,
                                         respondError(workers[c].echo, Error(signal),
                                                      c, "worker"))
                   /\ workers' = [workers EXCEPT ![c].st = "done"]
                   /\ jobs' = jobs \ {c}
                   /\ UNCHANGED context
    /\ UNCHANGED execRest
    /\ UNCHANGED <<nread, inThread, cur, wire, children, variables, lastLine>>

(***************************************************************************)
(* On the worker, after _next has returned:                                *)
(* respondOK(echo, context.getOutputs()) and finishJob.                    *)
(***************************************************************************)
workerRespondOK(c) ==
    /\ workers[c].st = "returned"
    /\ writeQueue' = send(writeQueue,
                          respondOK(workers[c].echo, getOutputs(context), c, "worker"))
    /\ workers' = [workers EXCEPT ![c].st = "done"]
    /\ jobs' = jobs \ {c}
    /\ UNCHANGED execRest
    /\ UNCHANGED <<nread, inThread, cur, context, wire, inv, runLock, children,
                   variables, lastLine>>

(***************************************************************************)
(* SpecExec: session 1 has connected (ClientSession.__init__ and the enter *)
(* hooks are done) and is in its input loop.                               *)
(***************************************************************************)
InitExec ==
    /\ accessinfo \in [defaultAccess : {GUEST, CONTROLLER},
                       accessLimits : {CONTROLLER},
                       authLimits : {FULL}]
    /\ phase = [s \in Sessions |-> IF s = 1 THEN "run" ELSE "none"]
    /\ accessLevel = [s \in Sessions |-> IF s = 1 THEN accessinfo.defaultAccess ELSE GUEST]
    /\ accessLimit = [s \in Sessions |-> IF s = 1 THEN accessinfo.accessLimits ELSE GUEST]
    /\ authLimit = [s \in Sessions |-> IF s = 1 THEN accessinfo.authLimits ELSE GUEST]
    /\ stealthAccess = [s \in Sessions |-> FALSE]
    /\ originalAccess = [s \in Sessions |-> GUEST]
    /\ exclusive = NoSession
    /\ result = "none"
    /\ nops = 0
    /\ ExecIdle
    /\ MacroIdle
    /\ PubIdle
    /\ DispIdle
    /\ TreeIdle
    /\ VarsIdle
    /\ SessIdle
    /\ BrkIdle
    /\ MaccIdle
    /\ ParseIdle
    /\ ClientIdle
    /\ ReadyIdle
    /\ BindIdle

NextExec ==
    \/ \E kind \in LineKinds : \E l \in LineLeaves(kind) : getCommand(kind, l)
    \/ EOF
    \/ \E bind \in BindInputs(cur), sync \in SyncInputs(cur), out \in OutInputs(cur),
          level \in LevelInputs(cur), created \in CreatedInputs(cur) :
          handleExceptions(bind, sync, out, level, created)
    \/ \E created \in BOOLEAN : getChild("SING_B", created)
    \/ \E c \in Cmds : startThread(c)
    \/ \E c \in Cmds, out \in {"ok", "RunError"} : _next(c, out)
    \/ \E c \in Cmds : workerRespondOK(c)
    \/ _outputHandler

SpecExec == InitExec /\ [][NextExec]_vars

(***************************************************************************)
(* SpecMacro: a client session invokes one macro.  The session's level is *)
(* sufficient for the macro and for every command of its body.            *)
(***************************************************************************)
MaxBody == 3                         \* commands in the macro's text
BodyKinds == {"CMD", "FAIL", "RETurn", "NEXT", "BREak"}
Bodies == UNION {[1..n -> BodyKinds] : n \in 1..MaxBody}

SYNC == "SYNC"
ASYNC == "ASYNC"
RAISE == "RAISE"
PASSTHROUGH == "PASSTHROUGH"

\* A reply to the client: its first word, the echo of the command, its
\* outputs ("ret" stands for the arguments of RETurn) and the sending thread.
macroReply(word, echo, outs, by) ==
    [word |-> word, echo |-> echo, outs |-> outs, by |-> by]

\* BaseSession.runStream with RETurn treated as an ordinary command.
runStream_ignoreReturn(kind, nextCommand, catchReturn) ==
    CASE kind \in {"CMD", "RETurn"} -> "continue"
      [] kind = "FAIL" -> "raise Error"
      [] kind = "BREak" -> IF catchReturn THEN "return" ELSE "raise Break"
      [] kind = "NEXT" ->
            CASE nextCommand = PASSTHROUGH -> "raise NextCommand"
              [] nextCommand = RAISE -> "raise NextReply"
              [] nextCommand = SYNC -> "continue"
              [] nextCommand = ASYNC -> "startThread"

\* BaseSession.runStream: what the loop does once runParts has run a command
\* of the given kind.  With nextCommand = SYNC the rest of the stream is run
\* by a nested runStream call, after which the outer loop finds the stream
\* at its end: the commands run in the same order as if the loop continued.
runStream(kind, nextCommand, catchReturn) ==
    CASE kind = "CMD" -> "continue"
      [] kind = "FAIL" -> "raise Error"
      [] kind = "BREak" -> IF catchReturn THEN "return" ELSE "raise Break"
      [] kind = "RETurn" -> IF catchReturn THEN "return args" ELSE "raise ReturnValue"
      [] kind = "NEXT" ->
            CASE nextCommand = PASSTHROUGH -> "raise NextCommand"
              [] nextCommand = RAISE -> "raise NextReply"
              [] nextCommand = SYNC -> "continue"
              [] nextCommand = ASYNC -> "startThread"

\* ClientSession.handleExceptions: the reply for what func returned or raised.
macroRespond(outcome, echo, by) ==
    CASE outcome \in {"return", "raise Break", "EOF", "raise NextCommand"} ->
            macroReply("OK", echo, "none", by)
      [] outcome \in {"return args", "raise ReturnValue"} ->
            macroReply("OK", echo, "ret", by)
      [] outcome = "raise Error" -> macroReply("ERR", echo, "Error", by)
      [] outcome = "raise NextReply" -> macroReply("NEXT", echo, "none", by)

\* BaseSession.addJob
addJob(joblist, job) == joblist \cup {job}

\* BaseSession.finishJob that leaves the job in the list.
finishJob_keep(joblist, job) == joblist

\* BaseSession.finishJob
finishJob(joblist, job) == joblist \ {job}

\* ClientSession.handleExceptions adds its job and calls its func, here
\* Macro.run called by the input thread for the client's macro command.
\* Macro.runMacro constructs a MacroSession, whose parent setter refers to
\* the name weakref that nested_session.py never imports; InlineMacro.runMacro
\* runs the text in the calling session (runBlock).
Macro_run ==
    /\ mrun = "idle"
    /\ IF minline
       THEN /\ mrun' = "body"
            /\ mjobs' = addJob(mjobs, "input")
            /\ UNCHANGED mreplies
       ELSE /\ mrun' = "done"
            /\ mreplies' = Append(mreplies, macroReply("ERR", "macro", "NameError", "input"))
            /\ mjobs' = finishJob(addJob(mjobs, "input"), "input")
    /\ UNCHANGED <<mbody, minline, mpc, mworker, mecho, mtext, mexec, mnext>>
    /\ UNCHANGED macroRest

\* One turn of runStream's loop in the input thread, as called by runBlock
\* from InlineMacro.runMacro: nextCommand = ASYNC, catchReturn = True.
runBlock ==
    /\ mrun = "body"
    /\ IF mpc = Len(mbody)
       THEN /\ mrun' = "done"
            /\ mreplies' = Append(mreplies, macroRespond("EOF", "macro", "input"))
            /\ mjobs' = finishJob(mjobs, "input")
            /\ UNCHANGED <<mpc, mexec, mtext, mworker>>
       ELSE LET outcome == runStream(mbody[mpc + 1], ASYNC, TRUE) IN
            /\ mpc' = mpc + 1
            /\ mexec' = Append(mexec, mpc + 1)
            /\ mtext' = "body"
            /\ CASE outcome = "continue" -> UNCHANGED <<mrun, mreplies, mworker, mjobs>>
                 [] outcome = "startThread" ->
                       /\ mworker' = "starting"
                       /\ mrun' = "returning"
                       /\ UNCHANGED <<mreplies, mjobs>>
                 [] OTHER ->
                       /\ mrun' = "done"
                       /\ mreplies' = Append(mreplies,
                                             macroRespond(outcome, "macro", "input"))
                       /\ mjobs' = finishJob(mjobs, "input")
                       /\ UNCHANGED mworker
    /\ UNCHANGED <<mbody, minline, mecho, mnext>>
    /\ UNCHANGED macroRest

\* The input thread after startThread and `break`: runStream returns None,
\* the macro's invocation ends and ClientSession.handleExceptions replies.
macroRespondOK ==
    /\ mrun = "returning"
    /\ mrun' = "done"
    /\ mreplies' = Append(mreplies, macroRespond("return", "macro", "input"))
    /\ mjobs' = finishJob(mjobs, "input")
    /\ UNCHANGED <<mbody, minline, mpc, mworker, mecho, mtext, mexec, mnext>>
    /\ UNCHANGED macroRest

\* The worker thread enters ClientSession.handleExceptions(asynchronous=True)
\* and computes its echo from the context it shares with the input thread.
macroWorkerStart ==
    /\ mworker = "starting"
    /\ mworker' = "running"
    /\ mecho' = mtext
    /\ mjobs' = addJob(mjobs, "worker")
    /\ UNCHANGED <<mbody, minline, mpc, mrun, mtext, mexec, mreplies, mnext>>
    /\ UNCHANGED macroRest

\* One turn of the loop in the worker: runAsynchronousStream calls
\* runStream(instream, context, nextReply=ASYNC, nextCommand=SYNC,
\* catchReturn=False), then runStream again on the exhausted stream.
runAsynchronousStream ==
    /\ mworker = "running"
    /\ IF mpc = Len(mbody)
       THEN /\ mworker' = "done"
            /\ mreplies' = Append(mreplies, macroRespond("EOF", mecho, "worker"))
            /\ mjobs' = finishJob(mjobs, "worker")
            /\ UNCHANGED <<mpc, mexec, mtext>>
       ELSE LET outcome == runStream(mbody[mpc + 1], SYNC, FALSE) IN
            /\ mpc' = mpc + 1
            /\ mexec' = Append(mexec, mpc + 1)
            /\ mtext' = "body"
            /\ IF outcome = "continue"
               THEN UNCHANGED <<mworker, mreplies, mjobs>>
               ELSE /\ mworker' = "done"
                    /\ mreplies' = Append(mreplies,
                                          macroRespond(outcome, mecho, "worker"))
                    /\ mjobs' = finishJob(mjobs, "worker")
    /\ UNCHANGED <<mbody, minline, mrun, mecho, mnext>>
    /\ UNCHANGED macroRest

\* ClientSession.handleInput reads the client's next command line.
macroCallerNext ==
    /\ mrun = "done"
    /\ ~mnext
    /\ mnext' = TRUE
    /\ mtext' = "next"
    /\ UNCHANGED <<mbody, minline, mpc, mrun, mworker, mecho, mexec, mreplies, mjobs>>
    /\ UNCHANGED macroRest

InitMacro ==
    /\ accessinfo = [defaultAccess |-> FULL, accessLimits |-> FULL, authLimits |-> FULL]
    /\ phase = [s \in Sessions |-> IF s = 1 THEN "run" ELSE "none"]
    /\ accessLevel = [s \in Sessions |-> IF s = 1 THEN FULL ELSE GUEST]
    /\ accessLimit = [s \in Sessions |-> IF s = 1 THEN FULL ELSE GUEST]
    /\ authLimit = [s \in Sessions |-> IF s = 1 THEN FULL ELSE GUEST]
    /\ stealthAccess = [s \in Sessions |-> FALSE]
    /\ originalAccess = [s \in Sessions |-> GUEST]
    /\ exclusive = NoSession
    /\ result = "none"
    /\ nops = 0
    /\ ExecIdle
    /\ PubIdle
    /\ DispIdle
    /\ TreeIdle
    /\ VarsIdle
    /\ SessIdle
    /\ BrkIdle
    /\ MaccIdle
    /\ ParseIdle
    /\ ClientIdle
    /\ ReadyIdle
    /\ BindIdle
    /\ mbody \in Bodies
    /\ minline \in BOOLEAN
    /\ mpc = 0
    /\ mrun = "idle"
    /\ mworker = "none"
    /\ mecho = "none"
    /\ mtext = "macro"
    /\ mexec = <<>>
    /\ mreplies = <<>>
    /\ mjobs = {}
    /\ mnext = FALSE

NextMacro ==
    \/ Macro_run
    \/ runBlock
    \/ macroRespondOK
    \/ macroWorkerStart
    \/ runAsynchronousStream
    \/ macroCallerNext

SpecMacro == InitMacro /\ [][NextMacro]_vars

(***************************************************************************)
(* SpecPub: two connected client sessions use the publication bus.        *)
(***************************************************************************)
RECURSIVE countEntries(_, _)
\* The number of records of a callback in a sequence of record lists.
countEntries(lists, callback) ==
    IF lists = <<>> THEN 0
    ELSE LET mine(r) == r.cb = callback
         IN  Len(SelectSeq(Head(lists), mine)) + countEntries(Tail(lists), callback)

\* The subscriber lists and the filter lists, as _removeSubscriptions sees them.
recordLists(ts, fs) ==
    [i \in DOMAIN ts |-> ts[i].subs] \o [i \in DOMAIN fs |-> fs[i].records]

\* One subscription record, as stored in subscriber lists and filters.
subscription(mask, level, callback, args) ==
    [mask |-> mask, level |-> level, cb |-> callback, args |-> args]

(***************************************************************************)
(* publication.subscribe(mask, level, callback, args, ...), the callback   *)
(* being that of session s.  The topics created                            *)
(* at import are never deleted here, so the loop variable `name` that the  *)
(* createMissing branch passes to addTopic is always bound: it is the key  *)
(* of the last topic of _subscriptions, whose record addTopic rewrites     *)
(* with the default level.                                                 *)
(***************************************************************************)
subscribeWith(s, mask, level, future, createMissing, ignoreMissing, args) ==
    /\ npub < MaxPub
    /\ phase[s] = "run"
    /\ LET rec == subscription(mask, level, s, args)
           ts1 == unsubscribeTopics(ptopics, mask, s, args)
           fs1 == _removeSubscriptions(pfilters, mask, s, args)
           reg1 == dropRegistered(pregistered, mask, s, args)
           wild == iswildcard(mask)
           fut == IF future = "None" THEN wild ELSE future = "True"
           count == Cardinality({i \in DOMAIN ts1 : match(mask, ts1[i].name)})
           create == count = 0 /\ createMissing /\ ~wild
           raises == count = 0 /\ ~create /\ ~fut /\ ~ignoreMissing
           name == ts1[Len(ts1)].name
           ts2 == IF create
                  THEN [addTopicTo(ts1, fs1, name, DEBUG) EXCEPT
                           ![Len(ts1)].subs = Append(@, rec)]
                  ELSE subscribeTopics(ts1, mask, rec)
       IN  IF raises
           THEN /\ ptopics' = ts1
                /\ pfilters' = fs1
                /\ pregistered' = reg1
                /\ presult' = [op |-> "subscribe", out |-> "NoSuchTopic", count |-> 0]
                /\ UNCHANGED pmin
           ELSE /\ ptopics' = ts2
                /\ pfilters' = IF fut THEN addFuture(fs1, mask, rec) ELSE fs1
                /\ pregistered' = reg1 \cup {[mask |-> mask, level |-> level, cb |-> s,
                                              args |-> args, future |-> future]}
                /\ pmin' = IF (create \/ count > 0) /\ level < pmin THEN level ELSE pmin
                /\ presult' = [op |-> "subscribe", out |-> "ok", count |-> 0]
    /\ pdelivered' = <<>>
    /\ npub' = npub + 1
    /\ UNCHANGED pdelayed
    /\ UNCHANGED pubRest

\* ClientSession.subscribe: the callback is the session's processMessage, the
\* args are (messageFormat, includeSession).
subscribe(s, mask, level, future, createMissing, ignoreMissing) ==
    subscribeWith(s, mask, level, future, createMissing, ignoreMissing, SessionArgs)

\* ClientSession.unsubscribe -> publication.unsubscribe(topic, callback)
unsubscribe(s, mask) ==
    /\ npub < MaxPub
    /\ phase[s] = "run"
    /\ ptopics' = unsubscribeTopics(ptopics, mask, s, NoArgs)
    /\ pfilters' = _removeSubscriptions(pfilters, mask, s, NoArgs)
    /\ pregistered' = dropRegistered(pregistered, mask, s, NoArgs)
    /\ presult' = [op |-> "unsubscribe", out |-> "ok",
                   count |-> countEntries(recordLists(ptopics, pfilters), s)
                             - countEntries(recordLists(ptopics', pfilters'), s)]
    /\ pdelivered' = <<>>
    /\ npub' = npub + 1
    /\ UNCHANGED <<pdelayed, pmin>>
    /\ UNCHANGED pubRest

\* publication.addTopic(topic, level)
addTopic(topic, level) ==
    /\ npub < MaxPub
    /\ ptopics' = addTopicTo(ptopics, pfilters, topic, level)
    /\ presult' = [op |-> "addTopic",
                   out |-> IF topicExists(ptopics, topic) THEN "kept" ELSE "created",
                   count |-> 0]
    /\ pdelivered' = <<>>
    /\ npub' = npub + 1
    /\ UNCHANGED <<pfilters, pdelayed, pmin, pregistered>>
    /\ UNCHANGED pubRest

(***************************************************************************)
(* publication.publish -> Message -> publishMessage -> getSubscribers ->   *)
(* _publishMessage.  The only level a message is compared with before the  *)
(* subscribers are looked up is the global MinSubscriptionLevel; a topic's *)
(* level is the level given to messages published without one.             *)
(***************************************************************************)
publish(topic, level, trigger, createMissing) ==
    /\ npub < MaxPub
    /\ LET mlevel == IF level = NoLevel THEN getLevel(ptopics, topic) ELSE level
           passes == (level = NoLevel \/ level >= pmin) /\ mlevel >= pmin
           missing == ~topicExists(ptopics, topic)
           ts1 == IF missing THEN addTopicTo(ptopics, pfilters, topic, mlevel)
                  ELSE ptopics
           message == [id |-> npub + 1, topic |-> topic, level |-> mlevel]
           subscribers == getSubscribers(ts1, topic, mlevel)
       IN  CASE ~passes ->
                  /\ presult' = [op |-> "publish", out |-> "below", count |-> 0]
                  /\ pdelivered' = <<>>
                  /\ UNCHANGED <<ptopics, pdelayed>>
             [] passes /\ missing /\ ~createMissing ->
                  /\ presult' = [op |-> "publish", out |-> "NoSuchTopic", count |-> 0]
                  /\ pdelivered' = <<>>
                  /\ UNCHANGED <<ptopics, pdelayed>>
             [] OTHER ->
                  /\ ptopics' = ts1
                  /\ presult' = [op |-> "publish", out |-> "ok", count |-> 0]
                  /\ IF trigger # NoTrigger
                     THEN /\ pdelayed' = Append(pdelayed,
                                                [trigger |-> trigger, message |-> message,
                                                 subscribers |-> subscribers])
                          /\ pdelivered' = <<>>
                     ELSE /\ pdelivered' = [i \in DOMAIN subscribers |->
                                               [message |-> message,
                                                cb |-> subscribers[i].cb,
                                                args |-> subscribers[i].args]]
                          /\ UNCHANGED pdelayed
    /\ npub' = npub + 1
    /\ UNCHANGED <<pfilters, pmin, pregistered>>
    /\ UNCHANGED pubRest

(***************************************************************************)
(* publication.publishPending(trigger).  publishMessage appends triples    *)
(* (trigger, message, subscribers); the loop header `for t, m in           *)
(* _delayedMessages` unpacks each entry into two names, which raises       *)
(* ValueError at the first entry, before anything is delivered or removed. *)
(***************************************************************************)
publishPending(trigger) ==
    /\ npub < MaxPub
    /\ presult' = [op |-> "publishPending",
                   out |-> IF pdelayed = <<>> THEN "ok" ELSE "ValueError",
                   count |-> 0]
    /\ pdelivered' = <<>>
    /\ npub' = npub + 1
    /\ UNCHANGED <<ptopics, pfilters, pdelayed, pmin, pregistered>>
    /\ UNCHANGED pubRest

PLevels == {TRACE, NOTICE}                  \* cutoffs of subscriptions
TopicLevels == {DEBUG, WARNING}             \* levels given to addTopic
MessageLevels == {NoLevel, INFO}            \* levels given to publish
FutureInputs == {"None", "True", "False"}   \* the `future` argument

InitPub ==
    /\ accessinfo = [defaultAccess |-> GUEST, accessLimits |-> CONTROLLER,
                     authLimits |-> FULL]
    /\ phase = [s \in Sessions |-> "run"]
    /\ accessLevel = [s \in Sessions |-> GUEST]
    /\ accessLimit = [s \in Sessions |-> CONTROLLER]
    /\ authLimit = [s \in Sessions |-> FULL]
    /\ stealthAccess = [s \in Sessions |-> FALSE]
    /\ originalAccess = [s \in Sessions |-> GUEST]
    /\ exclusive = NoSession
    /\ result = "none"
    /\ nops = 0
    /\ ExecIdle
    /\ MacroIdle
    /\ PubIdle
    /\ DispIdle
    /\ TreeIdle
    /\ VarsIdle
    /\ SessIdle
    /\ BrkIdle
    /\ MaccIdle
    /\ ParseIdle
    /\ ClientIdle
    /\ ReadyIdle
    /\ BindIdle

NextPub ==
    \/ \E s \in Clients, mask \in Masks, level \in PLevels, future \in FutureInputs,
          createMissing \in BOOLEAN, ignoreMissing \in BOOLEAN :
          subscribe(s, mask, level, future, createMissing, ignoreMissing)
    \/ \E s \in Clients, mask \in Masks : unsubscribe(s, mask)
    \/ \E topic \in PTopics, level \in TopicLevels : addTopic(topic, level)
    \/ \E topic \in PTopics, level \in MessageLevels,
          trigger \in Triggers \cup {NoTrigger}, createMissing \in BOOLEAN :
          publish(topic, level, trigger, createMissing)
    \/ \E trigger \in Triggers \cup {NoTrigger} : publishPending(trigger)

SpecPub == InitPub /\ [][NextPub]_vars

(***************************************************************************)
(* SpecTeardown: connected client sessions subscribe and disconnect.       *)
(***************************************************************************)
NextTeardown ==
    \/ \E s \in Clients, mask \in Masks, future \in FutureInputs,
          createMissing \in BOOLEAN :
          subscribe(s, mask, TRACE, future, createMissing, TRUE)
    \/ \E s \in Clients : Disconnect(s)
    \/ \E s \in Clients, hooksOK \in BOOLEAN : cleanup(s, hooksOK)

SpecTeardown == InitPub /\ [][NextTeardown]_vars

(***************************************************************************)
(* SpecDispatch: threads publish on the topic "info" while client sessions *)
(* subscribe and unsubscribe, and each session's output thread writes what *)
(* was queued for its client.  The sessions subscribe with the cutoff INFO, *)
(* so MinSubscriptionLevel stays above DEBUG and the session's own debug   *)
(* publications (sendOutput, handleExceptions) end at publish's level test. *)
(***************************************************************************)

\* What a subscriber's callback does with a message, by the args it was
\* subscribed with:
\*   SessionArgs - ClientSession.processMessage formats the message and
\*                 sends it (sendMessage -> send -> writeQueue.put);
\*   RaisingArgs - ClientSession.processMessage with a format whose field has
\*                 a width and a value that cannot be sliced ("$kwargs:3$"):
\*                 Message.format raises TypeError before anything is sent;
\*   PreemptArgs - HandlerSession._messageReceiver with preempt: the message
\*                 goes to the handler's own queue and StopIteration is raised.
callbackOutcome(args) ==
    CASE args = SessionArgs -> "sent"
      [] args = RaisingArgs -> "TypeError"
      [] OTHER -> "StopIteration"

\* One item of a session's writeQueue: (text, callback).  `writes` is the
\* number of outstream.write calls ClientSession.send makes for it: one for
\* a plain text, three (prefix, the callback's output, postfix) for a text
\* with an output callback.
queueItem(qn, kind, id, streamed) ==
    [qn |-> qn, kind |-> kind, id |-> id, writes |-> IF streamed THEN 3 ELSE 1]

\* _outputHandler that takes the next item whenever one is queued.
outputItem_restart(writing, queue) ==
    IF queue # <<>> THEN [item |-> Head(queue), written |-> 0] ELSE writing

\* _outputHandler: the item being written is finished before writeQueue.get
\* is called again.
outputItem(writing, queue) ==
    IF writing.item # NoItem THEN writing
    ELSE [item |-> Head(queue), written |-> 0]

\* _publishMessage that walks the topic's list itself.
walkRecords_live(snapshot, live) == live

\* getSubscribers builds `records` from a copy of the topic's list; the walk
\* of _publishMessage is over that list of records.
walkRecords(snapshot, live) == snapshot

(***************************************************************************)
(* publication.publish -> publishMessage, by thread p, up to the point     *)
(* where _publishMessage starts its loop.                                  *)
(***************************************************************************)
publishMessage(p, topic, level, createMissing) ==
    /\ ncalls < MaxCalls
    /\ dpc[p] = "idle"
    /\ ncalls' = ncalls + 1
    /\ LET message == [id |-> ncalls + 1, topic |-> topic, level |-> level]
           missing == ~topicExists(ptopics, topic)
           ts1 == IF missing THEN addTopicTo(ptopics, pfilters, topic, level)
                  ELSE ptopics
           subscribers == getSubscribers(ts1, topic, level)
       IN  CASE level < pmin ->
                  /\ dend' = [dend EXCEPT ![p] = "below"]
                  /\ dmsg' = [dmsg EXCEPT ![p] = message]
                  /\ dsnap' = [dsnap EXCEPT ![p] = <<>>]
                  /\ UNCHANGED <<dpc, ptopics>>
             [] level >= pmin /\ missing /\ ~createMissing ->
                  /\ dend' = [dend EXCEPT ![p] = "NoSuchTopic"]
                  /\ dmsg' = [dmsg EXCEPT ![p] = message]
                  /\ dsnap' = [dsnap EXCEPT ![p] = <<>>]
                  /\ UNCHANGED <<dpc, ptopics>>
             [] OTHER ->
                  /\ ptopics' = ts1
                  /\ dmsg' = [dmsg EXCEPT ![p] = message]
                  /\ dsnap' = [dsnap EXCEPT ![p] = subscribers]
                  /\ dpc' = [dpc EXCEPT ![p] =
                                IF subscribers = <<>> THEN "idle" ELSE "walk"]
                  /\ dend' = [dend EXCEPT ![p] =
                                IF subscribers = <<>> THEN "done" ELSE "none"]
    /\ dnext' = [dnext EXCEPT ![p] = 0]
    /\ UNCHANGED <<dcalls, dqueue, dqn, dwriting, dwire, nframes>>
    /\ UNCHANGED <<pfilters, pdelayed, pmin, pdelivered, presult, pregistered, npub>>
    /\ UNCHANGED dispRest

(***************************************************************************)
(* One turn of the loop of _publishMessage in thread p: the next callback  *)
(* is called.  StopIteration ends the loop and is swallowed; any other     *)
(* exception ends it and leaves publish.                                   *)
(***************************************************************************)
_publishMessage(p) ==
    /\ dpc[p] = "walk"
    /\ LET live == IF topicExists(ptopics, dmsg[p].topic)
                   THEN getSubscribers(ptopics, dmsg[p].topic, dmsg[p].level)
                   ELSE <<>>
           records == walkRecords(dsnap[p], live)
           i == dnext[p] + 1
       IN  IF i > Len(records)
           THEN /\ dpc' = [dpc EXCEPT ![p] = "idle"]
                /\ dend' = [dend EXCEPT ![p] = "done"]
                /\ UNCHANGED <<dnext, dcalls, dqueue, dqn>>
           ELSE LET r == records[i]
                    outcome == callbackOutcome(r.args)
                    last == i = Len(records)
                IN  /\ dnext' = [dnext EXCEPT ![p] = i]
                    /\ dcalls' = Append(dcalls, [id |-> dmsg[p].id, cb |-> r.cb,
                                                 args |-> r.args])
                    /\ IF outcome = "sent"
                       THEN /\ dqueue' = [dqueue EXCEPT ![r.cb] =
                                   send(@, queueItem(dqn[r.cb] + 1, "MESSAGE",
                                                     dmsg[p].id, FALSE))]
                            /\ dqn' = [dqn EXCEPT ![r.cb] = @ + 1]
                       ELSE UNCHANGED <<dqueue, dqn>>
                    /\ dpc' = [dpc EXCEPT ![p] =
                                  IF outcome = "sent" /\ ~last THEN "walk" ELSE "idle"]
                    /\ dend' = [dend EXCEPT ![p] =
                                  IF outcome # "sent" THEN outcome
                                  ELSE IF last THEN "done" ELSE "none"]
    /\ UNCHANGED <<ncalls, dmsg, dsnap, dwriting, dwire, nframes>>
    /\ UNCHANGED pubVars
    /\ UNCHANGED dispRest

(***************************************************************************)
(* ClientSession.sendOutput from a thread of session s (its input thread   *)
(* or one of its workers): respondOK and the like queue a plain text,      *)
(* respondOKWithCallback a text with an output callback.                   *)
(***************************************************************************)
sendOutput(s, streamed) ==
    /\ nframes < MaxFrames
    /\ phase[s] = "run"
    /\ nframes' = nframes + 1
    /\ dqueue' = [dqueue EXCEPT ![s] =
                     send(@, queueItem(dqn[s] + 1, "OK", 0, streamed))]
    /\ dqn' = [dqn EXCEPT ![s] = @ + 1]
    /\ UNCHANGED <<ncalls, dpc, dmsg, dsnap, dnext, dend, dcalls, dwriting, dwire>>
    /\ UNCHANGED pubVars
    /\ UNCHANGED dispRest

(***************************************************************************)
(* The output thread of session s: SocketSession._outputHandler hands each *)
(* queued item to ClientSession.send.  One step is one outstream.write.    *)
(***************************************************************************)
ClientSession_send(s) ==
    /\ dwriting[s].item # NoItem \/ dqueue[s] # <<>>
    /\ LET w == outputItem(dwriting[s], dqueue[s])
           taken == w.item # dwriting[s].item \/ dwriting[s].item = NoItem
           part == w.written + 1
       IN  /\ dqueue' = [dqueue EXCEPT ![s] = IF taken THEN Tail(@) ELSE @]
           /\ dwire' = [dwire EXCEPT ![s] =
                           Append(@, [qn |-> w.item.qn, kind |-> w.item.kind,
                                      id |-> w.item.id, part |-> part,
                                      writes |-> w.item.writes])]
           /\ dwriting' = [dwriting EXCEPT ![s] =
                              IF part = w.item.writes
                              THEN [item |-> NoItem, written |-> 0]
                              ELSE [item |-> w.item, written |-> part]]
    /\ UNCHANGED <<ncalls, dpc, dmsg, dsnap, dnext, dend, dcalls, dqn, nframes>>
    /\ UNCHANGED pubVars
    /\ UNCHANGED dispRest

DispatchLevels == {INFO}                    \* levels of the messages published
\* The first session subscribes a callback that raises, the others subscribe
\* with a format that renders.
DispatchArgs(s) == IF s = 1 THEN {RaisingArgs, PreemptArgs} ELSE {SessionArgs}

InitDispatch == InitPub

NextDispatch ==
    \/ \E s \in Clients : \E args \in DispatchArgs(s) :
          subscribeWith(s, "info", INFO, "False", FALSE, TRUE, args)
    \/ \E s \in Clients : unsubscribe(s, "info")
    \/ \E p \in Publishers, level \in DispatchLevels :
          publishMessage(p, "info", level, TRUE)
    \/ \E p \in Publishers : _publishMessage(p)
    \/ \E s \in Clients, streamed \in BOOLEAN : sendOutput(s, streamed)
    \/ \E s \in Clients : ClientSession_send(s)

SpecDispatch == InitDispatch /\ [][NextDispatch]_vars

(***************************************************************************)
(* SpecTree: the sessions look commands up in one branch, and define and   *)
(* remove dynamic commands in it.  Each session does so in its own thread; *)
(* neither Branch nor DynamicCommandBase takes a lock.                     *)
(***************************************************************************)

\* Branch.getChild(name, allowMissing=True, incarnate=False), as the
\* DynamicCommandBase functions call it: the instance, else the class.
findChild(key) ==
    IF tchildren[key] # NoNode THEN [kind |-> "instance", node |-> tchildren[key]]
    ELSE IF childclasses[key] # NoClass THEN [kind |-> "class", node |-> NoNode]
    ELSE [kind |-> "none", node |-> NoNode]

\* Branch.getChild(name) by the thread of session s, up to the point where
\* the class found in childclasses is about to be instantiated.
Branch_getChild(s, query) ==
    /\ ntree < MaxTree
    /\ tpc[s] = "idle"
    /\ ntree' = ntree + 1
    /\ LET key == lower(query)
           found == findChild(key)
       IN  CASE found.kind = "instance" ->
                  /\ tresult' = [tresult EXCEPT ![s] = "found"]
                  /\ tlooked' = tlooked \cup {[key |-> key, id |-> found.node.id, by |-> s]}
                  /\ UNCHANGED <<tpc, tjob>>
             [] found.kind = "class" ->
                  /\ tpc' = [tpc EXCEPT ![s] = "incarnate"]
                  /\ tjob' = [tjob EXCEPT ![s] =
                                 [op |-> "incarnate",
                                  obj |-> [NoNode EXCEPT !.name = childclasses[key]],
                                  todo |-> keysOf(childclasses[key]), key |-> key]]
                  /\ tresult' = [tresult EXCEPT ![s] = "none"]
                  /\ UNCHANGED tlooked
             [] OTHER ->
                  /\ tresult' = [tresult EXCEPT ![s] = "UnknownCommand"]
                  /\ UNCHANGED <<tpc, tjob, tlooked>>
    /\ UNCHANGED <<tchildren, nobj>>
    /\ UNCHANGED treeRest

\* Branch.getChild, continued: obj = cls(name=names[0], parent=self, ...) and
\* the first assignment of addChild's loop.
Branch_incarnate(s) ==
    /\ tpc[s] = "incarnate"
    /\ nobj' = nobj + 1
    /\ LET obj == [tjob[s].obj EXCEPT !.id = nobj + 1]
       IN  /\ tchildren' = [tchildren EXCEPT ![Head(tjob[s].todo)] = obj]
           /\ tjob' = [tjob EXCEPT ![s].obj = obj, ![s].todo = Tail(@)]
    /\ tpc' = [tpc EXCEPT ![s] = "addChild"]
    /\ UNCHANGED <<tresult, tlooked, ntree>>
    /\ UNCHANGED treeRest

\* One turn of the loop of Branch.addChild: self.children[n.lower()] = instance
Branch_addChild(s) ==
    /\ tpc[s] = "addChild"
    /\ tchildren' = [tchildren EXCEPT ![Head(tjob[s].todo)] = tjob[s].obj]
    /\ IF Len(tjob[s].todo) > 1
       THEN /\ tjob' = [tjob EXCEPT ![s].todo = Tail(@)]
            /\ UNCHANGED <<tpc, tresult, tlooked>>
       ELSE /\ tjob' = [tjob EXCEPT ![s] = NoJob]
            /\ tpc' = [tpc EXCEPT ![s] = "idle"]
            /\ tresult' = [tresult EXCEPT ![s] =
                              IF tjob[s].op = "incarnate" THEN "found" ELSE "defined"]
            /\ tlooked' = IF tjob[s].op = "incarnate"
                          THEN tlooked \cup {[key |-> tjob[s].key, id |-> tjob[s].obj.id,
                                            by |-> s]}
                          ELSE tlooked
    /\ UNCHANGED <<nobj, ntree>>
    /\ UNCHANGED treeRest

\* DynamicCommandBase.findDynamicCommand and findModifiableCommand for the
\* session's level: the error raised, or "ok".
findModifiableCommand(level, name, allowMissing, allowExisting) ==
    LET found == findChild(lower(name))
        short == findChild(lower(shortname(name)))
    IN  CASE found.kind = "none" /\ ~allowMissing -> "UnknownCommand"
          [] found.kind = "none" /\ ~allowExisting /\ short.kind # "none" ->
                "DuplicateShortName"
          [] found.kind = "none" -> "ok"
          [] ~allowExisting -> "DuplicateName"
          [] ~found.node.dyn -> "IncorrectType"
          [] checkAccess(level, found.node.modifyAccess) -> "InsufficientAccess"
          [] OTHER -> "ok"

\* DynamicCommandBase.addinstance(session, name, obj, replaceExisting,
\* modifyAccess) with the first assignment of addChild's loop.
addinstance(s, name, replaceExisting, modifyAccess) ==
    /\ ntree < MaxTree
    /\ tpc[s] = "idle"
    /\ ntree' = ntree + 1
    /\ LET outcome == findModifiableCommand(accessLevel[s], name, TRUE, replaceExisting)
           obj == [id |-> nobj + 1, name |-> name, dyn |-> TRUE,
                   modifyAccess |-> IF modifyAccess \in 0..(accessLevel[s] - 1)
                                    THEN modifyAccess ELSE accessLevel[s]]
       IN  IF outcome # "ok"
           THEN /\ tresult' = [tresult EXCEPT ![s] = outcome]
                /\ UNCHANGED <<tchildren, tpc, tjob, nobj>>
           ELSE /\ nobj' = nobj + 1
                /\ tchildren' = [tchildren EXCEPT ![keysOf(name)[1]] = obj]
                /\ tjob' = [tjob EXCEPT ![s] =
                               [op |-> IF replaceExisting THEN "replace" ELSE "define",
                                obj |-> obj, todo |-> Tail(keysOf(name)),
                                key |-> keysOf(name)[1]]]
                /\ tpc' = [tpc EXCEPT ![s] = "addChild"]
                /\ tresult' = [tresult EXCEPT ![s] = "none"]
    /\ UNCHANGED tlooked
    /\ UNCHANGED treeRest

\* MACRo+ : the leaf class MACRo_Add cannot be instantiated (its
\* declareInputs names AccessLevels, which macro_leafs.py does not import),
\* so Branch.getChild("MACRo+") raises NameError and run is never reached.
MACRo_Add(s, name, replaceExisting) ==
    /\ ntree < MaxTree
    /\ tpc[s] = "idle"
    /\ ntree' = ntree + 1
    /\ tresult' = [tresult EXCEPT ![s] = "NameError"]
    /\ UNCHANGED <<tchildren, tpc, tjob, tlooked, nobj>>
    /\ UNCHANGED treeRest

RECURSIVE keysMapped(_, _, _)
\* list(self.children.items()) filtered by `child is obj`, in key order.
keysMapped(entries, keys, id) ==
    IF keys = {} THEN <<>>
    ELSE LET k == CHOOSE x \in keys : TRUE
         IN  (IF entries[k].id = id THEN <<k>> ELSE <<>>)
             \o keysMapped(entries, keys \ {k}, id)

\* MACRo- : MACRo_Remove.run -> delinstance -> findModifiableCommand, and
\* the first deletion of delChild's loop.
MACRo_Remove(s, name, ignoreMissing) ==
    /\ ntree < MaxTree
    /\ tpc[s] = "idle"
    /\ ntree' = ntree + 1
    /\ LET outcome == findModifiableCommand(accessLevel[s], name, ignoreMissing, TRUE)
           found == findChild(lower(name))
           refs == keysMapped(tchildren, Keys, found.node.id)
       IN  CASE outcome # "ok" ->
                  /\ tresult' = [tresult EXCEPT ![s] = outcome]
                  /\ UNCHANGED <<tchildren, tpc, tjob>>
             [] outcome = "ok" /\ found.kind = "none" ->
                  /\ tresult' = [tresult EXCEPT ![s] = "missing"]
                  /\ UNCHANGED <<tchildren, tpc, tjob>>
             [] OTHER ->
                  /\ tchildren' = [tchildren EXCEPT ![Head(refs)] = NoNode]
                  /\ IF Len(refs) > 1
                     THEN /\ tjob' = [tjob EXCEPT ![s] =
                                         [op |-> "remove", obj |-> found.node,
                                          todo |-> Tail(refs), key |-> lower(name)]]
                          /\ tpc' = [tpc EXCEPT ![s] = "delChild"]
                          /\ tresult' = [tresult EXCEPT ![s] = "none"]
                     ELSE /\ tresult' = [tresult EXCEPT ![s] = "removed"]
                          /\ UNCHANGED <<tpc, tjob>>
    /\ UNCHANGED <<tlooked, nobj>>
    /\ UNCHANGED treeRest

\* One turn of the loop of Branch.delChild: del self.children[name], which
\* raises KeyError when another thread has deleted the key meanwhile.
Branch_delChild(s) ==
    /\ tpc[s] = "delChild"
    /\ LET k == Head(tjob[s].todo)
           gone == tchildren[k] = NoNode
       IN  /\ tchildren' = [tchildren EXCEPT ![k] = NoNode]
           /\ IF gone \/ Len(tjob[s].todo) = 1
              THEN /\ tjob' = [tjob EXCEPT ![s] = NoJob]
                   /\ tpc' = [tpc EXCEPT ![s] = "idle"]
                   /\ tresult' = [tresult EXCEPT ![s] =
                                     IF gone THEN "KeyError" ELSE "removed"]
              ELSE /\ tjob' = [tjob EXCEPT ![s].todo = Tail(@)]
                   /\ UNCHANGED <<tpc, tresult>>
    /\ UNCHANGED <<tlooked, nobj, ntree>>
    /\ UNCHANGED treeRest

\* What the sessions look up: the alternate names, as written and in upper
\* and lower case.
Queries ==
    {alternateNames(n)[i] : n \in Names, i \in 1..3}
    \cup {upper(alternateNames(n)[i]) : n \in Names, i \in 1..3}
    \cup {lower(alternateNames(n)[i]) : n \in Names, i \in 1..3}
ModifyAccessInputs == {NoModifyAccess, GUEST}

\* The first session is an administrator, the others are controllers.
InitTree ==
    /\ accessinfo = [defaultAccess |-> GUEST, accessLimits |-> CONTROLLER,
                     authLimits |-> FULL]
    /\ phase = [s \in Sessions |-> "run"]
    /\ accessLevel = [s \in Sessions |-> IF s = 1 THEN ADMINISTRATOR ELSE CONTROLLER]
    /\ accessLimit = [s \in Sessions |-> IF s = 1 THEN ADMINISTRATOR ELSE CONTROLLER]
    /\ authLimit = [s \in Sessions |-> FULL]
    /\ stealthAccess = [s \in Sessions |-> FALSE]
    /\ originalAccess = [s \in Sessions |-> GUEST]
    /\ exclusive = NoSession
    /\ result = "none"
    /\ nops = 0
    /\ ExecIdle
    /\ MacroIdle
    /\ PubIdle
    /\ DispIdle
    /\ TreeIdle
    /\ VarsIdle
    /\ SessIdle
    /\ BrkIdle
    /\ MaccIdle
    /\ ParseIdle
    /\ ClientIdle
    /\ ReadyIdle
    /\ BindIdle

NextTree ==
    \/ \E s \in Clients, query \in Queries : Branch_getChild(s, query)
    \/ \E s \in Clients : Branch_incarnate(s)
    \/ \E s \in Clients : Branch_addChild(s)
    \/ \E s \in Clients, name \in DynamicNames, replaceExisting \in BOOLEAN,
          modifyAccess \in ModifyAccessInputs :
          addinstance(s, name, replaceExisting, modifyAccess)
    \/ \E s \in Clients, name \in DynamicNames, replaceExisting \in BOOLEAN :
          MACRo_Add(s, name, replaceExisting)
    \/ \E s \in Clients, name \in Names, ignoreMissing \in BOOLEAN :
          MACRo_Remove(s, name, ignoreMissing)
    \/ \E s \in Clients : Branch_delChild(s)

SpecTree == InitTree /\ [][NextTree]_vars

(***************************************************************************)
(* SpecVars: client sessions read and set variables in the three scopes    *)
(* and run macros that bind their arguments and set variables.             *)
(***************************************************************************)
\* VariableLeaf.scopeData: the maps of a VARiable leaf below a branch, for
\* the context of session s.
scopeData(s, branch) == <<vlocal[s], vbranch[branch], vglobal>>

varResult(op, outcome, value, scope) ==
    [op |-> op, outcome |-> outcome, value |-> value, scope |-> scope]

\* -extend on a list that has reached the longest length kept here.
fits(maps, c) ==
    LET new == c.create \/ ~c.extend
        chosen == IF c.scope = NoScope /\ new THEN LocalScope ELSE c.scope
    IN c.extend => Len(dataProxy(maps, chosen, c.name, LocalScope).value.words) < MaxWords

\* The maps that _getVariable searches, in the order of a mutant that
\* searches like _getEvaluationResult (global first).
getVariableMaps_globalFirst(s) == <<vglobal, vbranch["Top"], vlocal[s]>>

\* The DataProxy of BaseSession._getVariable: the context's data, then the
\* data of context.scope (Top for a client session), then the global data.
getVariableMaps(s) == <<vlocal[s], vbranch["Top"], vglobal>>

\* ${name} in a command line of session s.
_getVariable(s, name) ==
    /\ phase[s] = "run"
    /\ LET r == getScopeDataValue(getVariableMaps(s), NoScope, name) IN
       vresult' = IF checkAccess(accessLevel[s], OBSERVER)
                  THEN varResult("get", "InsufficientAccess", <<>>, NoScope)
                  ELSE varResult("get", "ok",
                                 IF r.found THEN toString(getValue(r.value)) ELSE <<>>,
                                 r.scope)
    /\ UNCHANGED <<vlocal, vbranch, vglobal, nvar>>
    /\ UNCHANGED varsRest

\* [branch:]VARiable= [-scope=...] [-extend] [-create] name word
VARiable_Set(s, branch, c) ==
    /\ phase[s] = "run"
    /\ nvar < MaxVarOps
    /\ fits(scopeData(s, branch), c)
    /\ nvar' = nvar + 1
    /\ IF checkAccess(accessLevel[s], CONTROLLER)
       THEN /\ vresult' = varResult("set", "InsufficientAccess", <<>>, NoScope)
            /\ UNCHANGED <<vlocal, vbranch, vglobal>>
       ELSE LET out == VARiable_Set_run(scopeData(s, branch), c.scope, c.extend,
                                        c.create, c.name, c.word) IN
            /\ vlocal' = [vlocal EXCEPT ![s] = out.maps[LocalScope + 1]]
            /\ vbranch' = [vbranch EXCEPT ![branch] = out.maps[BranchScope + 1]]
            /\ vglobal' = out.maps[GlobalScope + 1]
            /\ vresult' = varResult("set", "ok", <<>>, out.scope)
    /\ UNCHANGED varsRest

RECURSIVE runVarBlock(_, _)
\* runBlock over a body of VARiable= command lines, in one context.
runVarBlock(maps, body) ==
    IF body = <<>> THEN maps
    ELSE LET c == Head(body) IN
         runVarBlock(VARiable_Set_run(maps, c.scope, c.extend, c.create,
                                      c.name, c.word).maps,
                     Tail(body))

\* Macro.runMacro: the MacroSession cannot be constructed (the parent setter
\* of NestedSession refers to weakref, which nested_session.py does not
\* import), so neither the clone of the context nor the body is reached.
Macro_runMacro(s, parameters, body) ==
    /\ phase[s] = "run"
    /\ nvar < MaxVarOps
    /\ nvar' = nvar + 1
    /\ vresult' = IF checkAccess(accessLevel[s], FULL)
                  THEN varResult("macro", "InsufficientAccess", <<>>, NoScope)
                  ELSE varResult("macro", "NameError", <<>>, NoScope)
    /\ UNCHANGED <<vlocal, vbranch, vglobal>>
    /\ UNCHANGED varsRest

\* InlineMacro.runMacro: _context.data.update(parameters), then runBlock of
\* the text in the caller's context.
InlineMacro_runMacro(s, parameters, body) ==
    /\ phase[s] = "run"
    /\ nvar < MaxVarOps
    /\ \A i \in DOMAIN body : fits(scopeData(s, "Top"), body[i])
    /\ nvar' = nvar + 1
    /\ IF checkAccess(accessLevel[s], FULL)
       THEN /\ vresult' = varResult("inline", "InsufficientAccess", <<>>, NoScope)
            /\ UNCHANGED <<vlocal, vbranch, vglobal>>
       ELSE LET bound == <<update(vlocal[s], parameters), vbranch["Top"], vglobal>>
                maps == runVarBlock(bound, body) IN
            /\ vlocal' = [vlocal EXCEPT ![s] = maps[LocalScope + 1]]
            /\ vbranch' = [vbranch EXCEPT !["Top"] = maps[BranchScope + 1]]
            /\ vglobal' = maps[GlobalScope + 1]
            /\ vresult' = varResult("inline", "ok", <<>>, NoScope)
    /\ UNCHANGED varsRest

\* Argument bindings of a macro call: none, or one parameter.
Parameters ==
    {EmptyMap} \cup {setItem(EmptyMap, n, strValue(<<w>>)) : n \in VarNames, w \in Words}

\* Macro bodies: empty, or one line `VARiable= [-scope=global] name word`.
VarBodies ==
    {<<>>} \cup {<<c>> : c \in {d \in SetCommands :
                                 ~d.extend /\ d.scope \in {NoScope, GlobalScope}}}

\* Session 1 has full access (it can run macros); the others are guests or
\* controllers.
InitVars ==
    /\ accessinfo = [defaultAccess |-> GUEST, accessLimits |-> CONTROLLER,
                     authLimits |-> FULL]
    /\ phase = [s \in Sessions |-> "run"]
    /\ accessLevel \in {f \in [Sessions -> {GUEST, CONTROLLER, FULL}] :
                          \A s \in Sessions : (f[s] = FULL) <=> (s = 1)}
    /\ accessLimit = [s \in Sessions |-> FULL]
    /\ authLimit = [s \in Sessions |-> FULL]
    /\ stealthAccess = [s \in Sessions |-> FALSE]
    /\ originalAccess = [s \in Sessions |-> GUEST]
    /\ exclusive = NoSession
    /\ result = "none"
    /\ nops = 0
    /\ ExecIdle
    /\ MacroIdle
    /\ PubIdle
    /\ DispIdle
    /\ TreeIdle
    /\ VarsIdle
    /\ SessIdle
    /\ BrkIdle
    /\ MaccIdle
    /\ ParseIdle
    /\ ClientIdle
    /\ ReadyIdle
    /\ BindIdle

NextVars ==
    \/ \E s \in Clients, name \in VarNames : _getVariable(s, name)
    \/ \E s \in Clients, branch \in Branches, c \in SetCommands : VARiable_Set(s, branch, c)
    \/ \E s \in Clients, parameters \in Parameters, body \in VarBodies :
          Macro_runMacro(s, parameters, body)
    \/ \E s \in Clients, parameters \in Parameters, body \in VarBodies :
          InlineMacro_runMacro(s, parameters, body)

SpecVars == InitVars /\ [][NextVars]_vars

(***************************************************************************)
(* SpecBind: a leaf binds the parts of one command line to its parameters. *)
(***************************************************************************)
\* Leaf.invoke up to the call of run: the parts are mapped and the
\* arguments are collected.
Leaf_parseInputs ==
    /\ bresult = NoBinding
    /\ bresult' = parseInputs(bdecl, bparts)
    /\ UNCHANGED <<bdecl, bparts>>
    /\ UNCHANGED bindRest

\* The session goes on to its next command line.
Leaf_nextLine ==
    /\ bresult # NoBinding
    /\ \E decl \in Declarations, parts \in PartLists :
          /\ bdecl' = decl
          /\ bparts' = parts
    /\ bresult' = NoBinding
    /\ UNCHANGED bindRest

InitBind ==
    /\ accessinfo = [defaultAccess |-> GUEST, accessLimits |-> CONTROLLER,
                     authLimits |-> FULL]
    /\ phase = [s \in Sessions |-> "run"]
    /\ accessLevel = [s \in Sessions |-> CONTROLLER]
    /\ accessLimit = [s \in Sessions |-> CONTROLLER]
    /\ authLimit = [s \in Sessions |-> FULL]
    /\ stealthAccess = [s \in Sessions |-> FALSE]
    /\ originalAccess = [s \in Sessions |-> GUEST]
    /\ exclusive = NoSession
    /\ result = "none"
    /\ nops = 0
    /\ ExecIdle
    /\ MacroIdle
    /\ PubIdle
    /\ DispIdle
    /\ TreeIdle
    /\ VarsIdle
    /\ SessIdle
    /\ BrkIdle
    /\ MaccIdle
    /\ ParseIdle
    /\ ClientIdle
    /\ ReadyIdle
    /\ bdecl \in Declarations
    /\ bparts \in PartLists
    /\ bresult = NoBinding

NextBind ==
    \/ Leaf_parseInputs
    \/ Leaf_nextLine

SpecBind == InitBind /\ [][NextBind]_vars

\* ---------------------------------------------------------------------------
\* Actions of SpecReady
\* ---------------------------------------------------------------------------

\* NetworkSession.setup up to the call of runHooks: ClientSession.setup and
\* the connect notification.
NetworkSession_setup ==
    /\ hpc = "setup"
    /\ hpc' = "hooks"
    /\ UNCHANGED <<hhooks, hidx, hwire, hthreads, hexception, hcmds>>
    /\ UNCHANGED readyRest

\* One turn of the loop of runHooks: runBlock(text, context, catchReturn=True).
\* _run leaves the exception of the last command in context.exception, also
\* a NextReply, NextCommand, ReturnValue or Break.
runHooks ==
    /\ hpc = "hooks"
    /\ hidx <= Len(hhooks)
    /\ LET kind == hhooks[hidx] IN
         CASE kind = "sync" ->
                /\ hidx' = hidx + 1
                /\ hexception' = FALSE
                /\ UNCHANGED <<hpc, hwire, hthreads>>
           [] kind = "Error" ->
                \* except Error: respondError(text, e); return False
                /\ hwire' = Append(hwire, hookLine(hidx, "ERRor"))
                /\ hexception' = TRUE
                /\ hpc' = "handle"
                /\ UNCHANGED <<hidx, hthreads>>
           [] kind = "NEXT" ->
                \* startThread; runBlock returns and the loop goes on
                /\ hthreads' = hthreads \cup {hidx}
                /\ hexception' = TRUE
                /\ hidx' = hidx + 1
                /\ UNCHANGED <<hpc, hwire>>
           [] kind = "RETurn" ->
                /\ hexception' = TRUE
                /\ hidx' = hidx + 1
                /\ UNCHANGED <<hpc, hwire, hthreads>>
           [] kind = "NameError" ->
                \* no Error: runHooks and setup raise, handle never reaches
                \* its try statement
                /\ hpc' = "raised"
                /\ UNCHANGED <<hidx, hwire, hthreads, hexception>>
    /\ UNCHANGED <<hhooks, hcmds>>
    /\ UNCHANGED readyRest

\* runHooks returned True: setup sends READy and returns.
sendReady ==
    /\ hpc = "hooks"
    /\ hidx > Len(hhooks)
    /\ hwire' = Append(hwire, readyLine)
    /\ hpc' = "handle"
    /\ UNCHANGED <<hhooks, hidx, hthreads, hexception, hcmds>>
    /\ UNCHANGED readyRest

\* BaseSession.handle after setup: if not context.exception: handleInput.
BaseSession_handle ==
    /\ hpc = "handle"
    /\ hpc' = IF hexception THEN "cleanup" ELSE "input"
    /\ UNCHANGED <<hhooks, hidx, hwire, hthreads, hexception, hcmds>>
    /\ UNCHANGED readyRest

\* ClientSession.handleInput: one command line of the client is run and
\* answered, or the input ends.
ClientSession_handleInput(word) ==
    /\ hpc = "input"
    /\ IF word = "EOF"
          THEN /\ hpc' = "cleanup"
               /\ UNCHANGED <<hwire, hcmds, hexception>>
          ELSE /\ hcmds < MaxInput
               /\ hcmds' = hcmds + 1
               /\ hwire' = Append(hwire, commandLine(hcmds + 1, word))
               /\ hexception' = (word = "ERRor")
               /\ UNCHANGED hpc
    /\ UNCHANGED <<hhooks, hidx, hthreads>>
    /\ UNCHANGED readyRest

\* The thread of startThread: ClientSession.handleExceptions(asynchronous=True)
\* runs the rest of the hook and answers it with OK or ERRor.  It shares the
\* context of the session (nextcontext = context).
hookThread(i, word) ==
    /\ i \in hthreads
    /\ hthreads' = hthreads \ {i}
    /\ hwire' = Append(hwire, hookLine(i, word))
    /\ hexception' = (word = "ERRor")
    /\ UNCHANGED <<hhooks, hpc, hidx, hcmds>>
    /\ UNCHANGED readyRest

\* finally: self.cleanup(context, *cleanupargs)
NetworkSession_cleanup ==
    /\ hpc = "cleanup"
    /\ hpc' = "closed"
    /\ UNCHANGED <<hhooks, hidx, hwire, hthreads, hexception, hcmds>>
    /\ UNCHANGED readyRest

InitReady ==
    /\ accessinfo = [defaultAccess |-> GUEST, accessLimits |-> CONTROLLER,
                     authLimits |-> FULL]
    /\ phase = [s \in Sessions |-> "run"]
    /\ accessLevel = [s \in Sessions |-> CONTROLLER]
    /\ accessLimit = [s \in Sessions |-> CONTROLLER]
    /\ authLimit = [s \in Sessions |-> FULL]
    /\ stealthAccess = [s \in Sessions |-> FALSE]
    /\ originalAccess = [s \in Sessions |-> GUEST]
    /\ exclusive = NoSession
    /\ result = "none"
    /\ nops = 0
    /\ ExecIdle
    /\ MacroIdle
    /\ PubIdle
    /\ DispIdle
    /\ TreeIdle
    /\ VarsIdle
    /\ SessIdle
    /\ BrkIdle
    /\ MaccIdle
    /\ ParseIdle
    /\ ClientIdle
    /\ BindIdle
    /\ hhooks \in HookLists
    /\ hpc = "setup"
    /\ hidx = 1
    /\ hwire = <<>>
    /\ hthreads = {}
    /\ hexception = FALSE
    /\ hcmds = 0

NextReady ==
    \/ NetworkSession_setup
    \/ runHooks
    \/ sendReady
    \/ BaseSession_handle
    \/ \E word \in {"OK", "ERRor", "EOF"} : ClientSession_handleInput(word)
    \/ \E i \in 1..MaxHooks, word \in {"OK", "ERRor"} : hookThread(i, word)
    \/ NetworkSession_cleanup

SpecReady == InitReady /\ [][NextReady]_vars

\* ---------------------------------------------------------------------------
\* Actions of SpecClient
\* ---------------------------------------------------------------------------

\* The connection is lost: from now on the input stream of the client is
\* at its end.
connectionLost ==
    /\ cstream = "open"
    /\ cstream' = "lost"
    /\ UNCHANGED <<cconfig, is_connected, is_receiving, pending, cqueue,
                   commandIndex, csender, clast, cwaiter>>
    /\ UNCHANGED clientRest

\* SocketClient.send_command and BaseClient.send_command up to the test of
\* is_connected under commandLock.  connect() starts a receive thread unless
\* one is still registered (startReceiveThread).
send_command(connected) ==
    /\ csender = "idle"
    /\ clast.calls < MaxSend
    /\ IF ~is_connected /\ cconfig.autoconnect
          THEN IF connected
                  THEN /\ cstream' = "open"
                       /\ is_connected' = TRUE
                       /\ is_receiving' = IF is_receiving = "no" THEN "run"
                                                                 ELSE is_receiving
                       /\ csender' = "locked"
                       /\ clast' = [calls |-> clast.calls + 1, after |-> TRUE, outcome |-> "none"]
                       /\ UNCHANGED cqueue
                  ELSE \* socket.error: on_disconnect, SCPICommunicationError
                       /\ cqueue' = on_disconnect(pending, cqueue)
                       /\ clast' = [calls |-> clast.calls + 1, after |-> TRUE,
                                    outcome |-> "SCPICommunicationError"]
                       /\ UNCHANGED <<cstream, is_connected, is_receiving, csender>>
          ELSE /\ connected
               /\ IF ~is_connected
                     THEN /\ clast' = [calls |-> clast.calls + 1, after |-> TRUE,
                                       outcome |-> "SCPIDisconnected"]
                          /\ UNCHANGED csender
                     ELSE /\ clast' = [calls |-> clast.calls + 1, after |-> FALSE,
                                       outcome |-> "none"]
                          /\ csender' = "locked"
               /\ UNCHANGED <<cstream, is_connected, is_receiving, cqueue>>
    /\ UNCHANGED <<cconfig, pending, commandIndex, cwaiter>>
    /\ UNCHANGED clientRest

\* The rest of BaseClient.send_command: the command becomes pending and is
\* written.  The write fails with an EnvironmentError only on a lost
\* connection (on_disconnect, SCPICommunicationError); after on_disconnect the
\* socket of a SocketClient is None and its writeline raises AttributeError,
\* while the writeline of BaseClient still writes.
writeline(outcome) ==
    /\ csender = "locked"
    /\ outcome = "SCPICommunicationError" => cstream = "lost"
    /\ outcome = "AttributeError" => ~is_connected
    /\ csender' = "idle"
    /\ commandIndex' = commandIndex + 1
    /\ pending' = pending \cup {commandIndex + 1}
    /\ clast' = [clast EXCEPT !.outcome = outcome]
    /\ IF outcome = "SCPICommunicationError"
          THEN /\ is_connected' = FALSE
               /\ cqueue' = on_disconnect(pending', cqueue)
          ELSE UNCHANGED <<is_connected, cqueue>>
    /\ cwaiter' = IF outcome = "index"
                     THEN [cwaiter EXCEPT ![commandIndex + 1] = "sent"]
                     ELSE cwaiter
    /\ UNCHANGED <<cconfig, cstream, is_receiving>>
    /\ UNCHANGED clientRest

\* receive_response(commandIndex) enters _get_response (timeout=None).
receive_response(i) ==
    /\ cwaiter[i] = "sent"
    /\ i \in pending
    /\ cwaiter' = [cwaiter EXCEPT ![i] = "loop"]
    /\ UNCHANGED <<cconfig, cstream, is_connected, is_receiving, pending, cqueue,
                   commandIndex, csender, clast>>
    /\ UNCHANGED clientRest

\* _get_response: while not self.is_receiving and responseQueue.empty() the
\* caller itself reads the input.  At the end of the input _receive calls
\* on_disconnect and returns False, and _get_response returns None.
_get_response(j, status) ==
    \E i \in CommandIndexes :
        /\ cwaiter[i] = "loop"
        /\ IF is_receiving = "no" /\ cqueue[i] = <<>>
              THEN IF cstream = "lost"
                      THEN /\ j = i
                           /\ status = "OK"
                           /\ is_connected' = FALSE
                           /\ cqueue' = on_disconnect(pending, cqueue)
                           /\ cwaiter' = [cwaiter EXCEPT ![i] = "None"]
                      ELSE /\ j \in pending
                           /\ cqueue[j] = <<>>
                           /\ cqueue' = _processResponse(cqueue, j, status)
                           /\ UNCHANGED <<is_connected, cwaiter>>
              ELSE /\ j = i
                   /\ status = "OK"
                   /\ cwaiter' = [cwaiter EXCEPT ![i] = "get"]
                   /\ UNCHANGED <<is_connected, cqueue>>
        /\ UNCHANGED <<cconfig, cstream, is_receiving, pending, commandIndex,
                       csender, clast>>
        /\ UNCHANGED clientRest

\* responseQueue.get(True, None) returns: an exception is raised, a response
\* is returned and its command is no longer pending.
responseQueue_get(i) ==
    /\ cwaiter[i] = "get"
    /\ cqueue[i] # <<>>
    /\ cwaiter' = [cwaiter EXCEPT ![i] = Head(cqueue[i])]
    /\ cqueue' = [cqueue EXCEPT ![i] = Tail(@)]
    /\ pending' = IF Head(cqueue[i]) = "SCPIDisconnected" THEN pending
                                                          ELSE pending \ {i}
    /\ UNCHANGED <<cconfig, cstream, is_connected, is_receiving, commandIndex,
                   csender, clast>>
    /\ UNCHANGED clientRest

\* One turn of receiveLoop in the receive thread: _receive reads a response,
\* or finds the end of the input and calls on_disconnect.
receiveLoop(j, status) ==
    /\ is_receiving = "run"
    /\ IF cstream = "lost"
          THEN /\ j = 1
               /\ status = "OK"
               /\ is_connected' = FALSE
               /\ cqueue' = on_disconnect(pending, cqueue)
               /\ is_receiving' = "exit"
          ELSE /\ j \in pending
               /\ cqueue[j] = <<>>
               /\ cqueue' = _processResponse(cqueue, j, status)
               /\ UNCHANGED <<is_connected, is_receiving>>
    /\ UNCHANGED <<cconfig, cstream, pending, commandIndex, csender, clast, cwaiter>>
    /\ UNCHANGED clientRest

\* The end of receiveLoop: is_receiving = False, receiveThread = None.
receiveLoop_end ==
    /\ is_receiving = "exit"
    /\ is_receiving' = "no"
    /\ UNCHANGED <<cconfig, cstream, is_connected, pending, cqueue, commandIndex,
                   csender, clast, cwaiter>>
    /\ UNCHANGED clientRest

InitClient ==
    /\ accessinfo = [defaultAccess |-> GUEST, accessLimits |-> CONTROLLER,
                     authLimits |-> FULL]
    /\ phase = [s \in Sessions |-> "run"]
    /\ accessLevel = [s \in Sessions |-> CONTROLLER]
    /\ accessLimit = [s \in Sessions |-> CONTROLLER]
    /\ authLimit = [s \in Sessions |-> FULL]
    /\ stealthAccess = [s \in Sessions |-> FALSE]
    /\ originalAccess = [s \in Sessions |-> GUEST]
    /\ exclusive = NoSession
    /\ result = "none"
    /\ nops = 0
    /\ ExecIdle
    /\ MacroIdle
    /\ PubIdle
    /\ DispIdle
    /\ TreeIdle
    /\ VarsIdle
    /\ SessIdle
    /\ BrkIdle
    /\ MaccIdle
    /\ ParseIdle
    /\ BindIdle
    /\ ReadyIdle
    /\ cconfig \in ClientConfigs
    /\ cstream = "open"
    /\ is_connected = TRUE
    /\ is_receiving = IF cconfig.threaded THEN "run" ELSE "no"
    /\ pending = {}
    /\ cqueue = [i \in CommandIndexes |-> <<>>]
    /\ commandIndex = 0
    /\ csender = "idle"
    /\ clast = [calls |-> 0, after |-> FALSE, outcome |-> "none"]
    /\ cwaiter = [i \in CommandIndexes |-> "none"]

NextClient ==
    \/ connectionLost
    \/ \E connected \in BOOLEAN : send_command(connected)
    \/ \E outcome \in {"index", "SCPICommunicationError", "AttributeError"} :
          writeline(outcome)
    \/ \E i \in CommandIndexes : receive_response(i)
    \/ \E j \in CommandIndexes, status \in {"OK", "ERRor"} : _get_response(j, status)
    \/ \E i \in CommandIndexes : responseQueue_get(i)
    \/ \E j \in CommandIndexes, status \in {"OK", "ERRor"} : receiveLoop(j, status)
    \/ receiveLoop_end

SpecClient == InitClient /\ [][NextClient]_vars

\* ---------------------------------------------------------------------------
\* Actions of SpecParse
\* ---------------------------------------------------------------------------

\* parser.collapseArgs(parts) with the default quoting QUOTE_AUTO
CommandParser_collapseArgs ==
    /\ ptext = None
    /\ ptext' = collapseArgs(pparts)
    /\ UNCHANGED <<pparts, pparsed>>
    /\ UNCHANGED parseRest

\* parser.expandArgs(text) on the collapsed text
CommandParser_expandArgs ==
    /\ ptext # None
    /\ pparsed = NotParsed
    /\ pparsed' = expandArgs(ptext)
    /\ UNCHANGED <<pparts, ptext>>
    /\ UNCHANGED parseRest

InitParse ==
    /\ accessinfo = [defaultAccess |-> GUEST, accessLimits |-> CONTROLLER,
                     authLimits |-> FULL]
    /\ phase = [s \in Sessions |-> "run"]
    /\ accessLevel = [s \in Sessions |-> CONTROLLER]
    /\ accessLimit = [s \in Sessions |-> CONTROLLER]
    /\ authLimit = [s \in Sessions |-> FULL]
    /\ stealthAccess = [s \in Sessions |-> FALSE]
    /\ originalAccess = [s \in Sessions |-> GUEST]
    /\ exclusive = NoSession
    /\ result = "none"
    /\ nops = 0
    /\ ExecIdle
    /\ MacroIdle
    /\ PubIdle
    /\ DispIdle
    /\ TreeIdle
    /\ VarsIdle
    /\ SessIdle
    /\ BrkIdle
    /\ MaccIdle
    /\ BindIdle
    /\ ReadyIdle
    /\ ClientIdle
    /\ pparts \in PartListsOfParser
    /\ ptext = None
    /\ pparsed = NotParsed

NextParse ==
    \/ CommandParser_collapseArgs
    \/ CommandParser_expandArgs

SpecParse == InitParse /\ [][NextParse]_vars

\* ---------------------------------------------------------------------------
\* Actions of SpecMacroAccess
\* ---------------------------------------------------------------------------

\* `MACRo+ -access=<access> [-inline] name text` by session s.  The leaf is
\* Controlling; Branch.getChild instantiates MACRo_Add on first use, and its
\* declareInputs names AccessLevels, which macro_leafs.py does not import:
\* the lookup raises NameError and MACRo_Add.run (with its test
\* `access > currentAccess`) is never reached.
MACRo_Add_run(s, access, inline) ==
    /\ mops < MaxMacroOps
    /\ phase[s] = "run"
    /\ mops' = mops + 1
    /\ mresult' = [op |-> "MACRo+", caller |-> accessLevel[s], access |-> access,
                   outcome |-> "NameError", level |-> NoLevel]
    /\ UNCHANGED mmacro
    /\ UNCHANGED maccRest

\* A call of the macro by session s.  Macro.requiredAccess is FULL.
\* Macro.runMacro constructs MacroSession(parent=_session, access=self.access):
\* NestedSession.__init__ sets accessLimit = accessLevel = authLimit = access
\* and then assigns self.parent, whose setter uses weakref without an import:
\* NameError, before any command of the text runs.
\* InlineMacro.runMacro runs the text with _session.runBlock, in the session
\* of the caller and at its access level.
Macro_runText(s) ==
    /\ mops < MaxMacroOps
    /\ phase[s] = "run"
    /\ mops' = mops + 1
    /\ mresult' =
          IF checkAccess(accessLevel[s], FULL)
          THEN [op |-> "call", caller |-> accessLevel[s], access |-> mmacro.access,
                outcome |-> "InsufficientAccess", level |-> NoLevel]
          ELSE IF mmacro.inline
          THEN [op |-> "call", caller |-> accessLevel[s], access |-> mmacro.access,
                outcome |-> "ok", level |-> accessLevel[s]]
          ELSE [op |-> "call", caller |-> accessLevel[s], access |-> mmacro.access,
                outcome |-> "NameError", level |-> NoLevel]
    /\ UNCHANGED mmacro
    /\ UNCHANGED maccRest

\* Session 1 has Full access, the others are between Guest and Administrator.
InitMacroAccess ==
    /\ accessinfo = [defaultAccess |-> GUEST, accessLimits |-> CONTROLLER,
                     authLimits |-> FULL]
    /\ phase = [s \in Sessions |-> "run"]
    /\ accessLevel \in [Sessions -> AccessLevels]
    /\ accessLevel[1] = FULL
    /\ accessLimit = accessLevel
    /\ authLimit = [s \in Sessions |-> FULL]
    /\ stealthAccess = [s \in Sessions |-> FALSE]
    /\ originalAccess = [s \in Sessions |-> GUEST]
    /\ exclusive = NoSession
    /\ result = "none"
    /\ nops = 0
    /\ ExecIdle
    /\ MacroIdle
    /\ PubIdle
    /\ DispIdle
    /\ TreeIdle
    /\ VarsIdle
    /\ SessIdle
    /\ BrkIdle
    /\ BindIdle
    /\ ReadyIdle
    /\ ClientIdle
    /\ ParseIdle
    /\ mmacro \in MacroObjects
    /\ mresult = NoMacroResult
    /\ mops = 0

NextMacroAccess ==
    \/ \E s \in Clients, access \in AccessLevels, inline \in BOOLEAN :
          MACRo_Add_run(s, access, inline)
    \/ \E s \in Clients : Macro_runText(s)

SpecMacroAccess == InitMacroAccess /\ [][NextMacroAccess]_vars

\* ---------------------------------------------------------------------------
\* Actions of SpecBreak
\* ---------------------------------------------------------------------------
\* bstack holds one frame per running runStream loop, the innermost last: the
\* macro whose body it reads and the number of commands read so far.

top == bstack[Len(bstack)]

nextCommand == bbodies[top.macro][top.read + 1]

advanced == [bstack EXCEPT ![Len(bstack)].read = @ + 1]

\* ClientSession.handleInput reads the command of the client, the call of
\* macro 1.
handleInput_call ==
    /\ bstate = "read"
    /\ bstack' = <<[macro |-> 1, read |-> 0]>>
    /\ bstate' = "run"
    /\ UNCHANGED bbodies
    /\ UNCHANGED brkRest

\* runStream reads a plain command and runs it.
runStream_command ==
    /\ bstate = "run"
    /\ top.read < MaxBreakBody
    /\ nextCommand.kind = "command"
    /\ bstack' = advanced
    /\ UNCHANGED <<bbodies, bstate>>
    /\ UNCHANGED brkRest

\* runStream reads the call of the next macro: runParts, _run,
\* InlineMacro.runMacro, runBlock and a new runStream loop.
runStream_call ==
    /\ bstate = "run"
    /\ top.read < MaxBreakBody
    /\ nextCommand.kind = "call"
    /\ bstack' = Append(advanced, [macro |-> top.macro + 1, read |-> 0])
    /\ UNCHANGED <<bbodies, bstate>>
    /\ UNCHANGED brkRest

\* runStream reads BREak: BREak.run raises Break(levels), runParts
\* (catchReturn=False) lets it pass and `except Break` of the runStream loop
\* returns, as catchReturn is True.  The levels are read nowhere.
runStream_Break(levels) ==
    /\ bstate = "run"
    /\ top.read < MaxBreakBody
    /\ nextCommand = [kind |-> "BREak", levels |-> levels]
    /\ bstack' = SubSeq(bstack, 1, Len(bstack) - 1)
    /\ bstate' = IF Len(bstack) = 1 THEN "replied" ELSE "run"
    /\ UNCHANGED bbodies
    /\ UNCHANGED brkRest

\* getCommand raises EOFError at the end of the body: runStream returns ().
runStream_EOF ==
    /\ bstate = "run"
    /\ top.read = MaxBreakBody
    /\ bstack' = SubSeq(bstack, 1, Len(bstack) - 1)
    /\ bstate' = IF Len(bstack) = 1 THEN "replied" ELSE "run"
    /\ UNCHANGED bbodies
    /\ UNCHANGED brkRest

InitBreak ==
    /\ accessinfo = [defaultAccess |-> GUEST, accessLimits |-> CONTROLLER,
                     authLimits |-> FULL]
    /\ phase = [s \in Sessions |-> "run"]
    /\ accessLevel = [s \in Sessions |-> FULL]
    /\ accessLimit = [s \in Sessions |-> FULL]
    /\ authLimit = [s \in Sessions |-> FULL]
    /\ stealthAccess = [s \in Sessions |-> FALSE]
    /\ originalAccess = [s \in Sessions |-> GUEST]
    /\ exclusive = NoSession
    /\ result = "none"
    /\ nops = 0
    /\ ExecIdle
    /\ MacroIdle
    /\ PubIdle
    /\ DispIdle
    /\ TreeIdle
    /\ VarsIdle
    /\ SessIdle
    /\ BindIdle
    /\ ReadyIdle
    /\ ClientIdle
    /\ ParseIdle
    /\ MaccIdle
    /\ bbodies \in MacroBodies
    /\ callable(bbodies)
    /\ bstack = <<>>
    /\ bstate = "read"

NextBreak ==
    \/ handleInput_call
    \/ runStream_command
    \/ runStream_call
    \/ \E levels \in 1..MaxLevels : runStream_Break(levels)
    \/ runStream_EOF

SpecBreak == InitBreak /\ [][NextBreak]_vars

(***************************************************************************)
(* SpecSession: the listeners, the macros and the module loader construct  *)
(* sessions.  BaseSession.__init__ takes the id, sets the debug topic and  *)
(* registers the session while holding BaseSession.mutex, so each          *)
(* construction is one step.                                               *)
(***************************************************************************)

\* BaseSession.__init__(instream, description, id_prefix) for an object of
\* class cls; outcome is that of the constructor that called it.
BaseSession_init(cls, id_prefix, outcome) ==
    /\ Len(instances) < MaxSessions
    /\ LET next == nextSessionID(sessionIndex, cls, id_prefix)
       IN  /\ sessionIndex' = next.sessionIndex
           /\ instances' = Append(instances,
                                  [cls |-> cls, sessionid |-> next.sessionid,
                                   debugTopic |-> debugTopic(next.sessionid),
                                   outcome |-> outcome])
    /\ UNCHANGED sessRest

\* NestedSession.__init__(parent, input, access): BaseSession.__init__, then
\* `self.parent = parent`, whose setter names weakref for a parent that is
\* not None; nested_session.py does not import weakref.
NestedSession_init(cls, parent) ==
    BaseSession_init(cls, NoPrefix, IF parent THEN "NameError" ELSE "created")

\* SocketRequestHandler.setup: SocketSession(..., id_prefix=self.prefix)
SocketRequestHandler_setup == BaseSession_init("SocketSession", "N", "created")

\* TelnetRequestHandler.setup: TelnetSession(..., id_prefix=self.prefix)
TelnetRequestHandler_setup == BaseSession_init("TelnetSession", "T", "created")

\* SerialRequestHandler.__init__: SerialSession(serial, ..., id_prefix='S')
SerialRequestHandler_init == BaseSession_init("SerialSession", "S", "created")

\* Macro.runMacro: MacroSession(input=text, parent=_session, ...)
MacroSession_init == NestedSession_init("MacroSession", TRUE)

\* ModuleSession(module, parent=..., ...) -> NestedSession.__init__
ModuleSession_init(parent) == NestedSession_init("ModuleSession", parent)

\* DetachedSession(parent=..., input=...) -> NestedSession.__init__
DetachedSession_init(parent) == NestedSession_init("DetachedSession", parent)

\* load.runModule: InitSession(module=path, description=...), which calls
\* ModuleSession.__init__(self, module=module, parent=None, access=FULL)
runModule == NestedSession_init("InitSession", FALSE)

InitSessions ==
    /\ accessinfo = [defaultAccess |-> GUEST, accessLimits |-> CONTROLLER,
                     authLimits |-> FULL]
    /\ phase = [s \in Sessions |-> "run"]
    /\ accessLevel = [s \in Sessions |-> GUEST]
    /\ accessLimit = [s \in Sessions |-> CONTROLLER]
    /\ authLimit = [s \in Sessions |-> FULL]
    /\ stealthAccess = [s \in Sessions |-> FALSE]
    /\ originalAccess = [s \in Sessions |-> GUEST]
    /\ exclusive = NoSession
    /\ result = "none"
    /\ nops = 0
    /\ ExecIdle
    /\ MacroIdle
    /\ PubIdle
    /\ DispIdle
    /\ TreeIdle
    /\ VarsIdle
    /\ BindIdle
    /\ ReadyIdle
    /\ ClientIdle
    /\ ParseIdle
    /\ MaccIdle
    /\ BrkIdle
    /\ SessIdle

NextSession ==
    \/ SocketRequestHandler_setup
    \/ TelnetRequestHandler_setup
    \/ SerialRequestHandler_init
    \/ MacroSession_init
    \/ \E parent \in BOOLEAN : ModuleSession_init(parent)
    \/ \E parent \in BOOLEAN : DetachedSession_init(parent)
    \/ runModule

SpecSession == InitSessions /\ [][NextSession]_vars

(***************************************************************************)
(* Claims checked under SpecAccess                                         *)
(***************************************************************************)

\* C1: in every reachable state at most one session holds exclusive access,
\* and while a session holds it no other live non-stealth session has an
\* access level greater than or equal to the holder's level.
C1_ExclusiveAccessSafety ==
    /\ Cardinality({s \in Sessions : exclusive = s}) <= 1
    /\ exclusive # NoSession =>
          \A s \in Sessions :
             (s # exclusive /\ phase[s] # "none" /\ ~stealthAccess[s])
                => accessLevel[s] < accessLevel[exclusive]

\* An ACCess request by client s for a level above its accessLimit.
AboveLimitRejected(outcomes) ==
    \A s \in Clients, level \in AccessLevels, excl \in BOOLEAN, stealth \in BOOLEAN :
       (ACCess(s, level, excl, stealth) /\ level > accessLimit[s])
          => /\ result' \in outcomes
             /\ UNCHANGED <<accessLevel, stealthAccess, exclusive>>

\* C3 (as stated): a session's access level never exceeds its accessLimit,
\* and an ACCess request for a level above the limit fails with
\* AccessLevelExceeded and leaves the level, the stealth flag and the
\* exclusive slot unchanged.
C3_LevelNeverExceedsLimit ==
    [][ /\ \A s \in Sessions : phase'[s] # "none" => accessLevel'[s] <= accessLimit'[s]
        /\ AboveLimitRejected({"AccessLevelExceeded"}) ]_vars

\* C3 (amended): outside the execution of its enter/exit hooks a session's
\* access level never exceeds its accessLimit, and an ACCess request for a
\* level above the limit fails (AccessLevelExceeded, or ExclusiveAccessGiven /
\* AccessGiven when the exclusivity checks reject it first) and leaves the
\* level, the stealth flag and the exclusive slot unchanged.
C3_LevelWithinLimitOutsideHooks ==
    [][ /\ \A s \in Sessions : phase'[s] = "run" => accessLevel'[s] <= accessLimit'[s]
        /\ AboveLimitRejected({"AccessLevelExceeded", "ExclusiveAccessGiven",
                               "AccessGiven"}) ]_vars

\* C3 witness: an ACCess request above the limit has just been refused with
\* AccessLevelExceeded while the session is in its input loop.
C3_Witness ==
    /\ result = "AccessLevelExceeded"
    /\ \E s \in Clients : phase[s] = "run" /\ accessLimit[s] < FULL

\* The outcomes with which setAccessLevel refuses a request.
Refused == {"AccessGiven", "ExclusiveAccessGiven", "AccessLevelExceeded"}

C15_ExclusiveReleasedAtEnd ==
    exclusive # NoSession => phase[exclusive] \in {"enter", "run", "exit"}

(***************************************************************************)
(* Claims checked under SpecExec                                           *)
(***************************************************************************)

\* Everything the session has sent so far, written or still queued.
Replies == wire \o writeQueue

RepliesTo(c) == {i \in DOMAIN Replies : Replies[i].cmd = c}

\* C2 (as stated): prerun and run of a leaf are never executed while the
\* session's current access level is below the leaf's requiredAccess, and a
\* command refused for that reason is answered with InsufficientAccess
\* carrying the required and the current level.
C2_NoRunBelowRequiredAccess ==
    [][ \A c \in Cmds :
          /\ ((inv[c].prerun = "none" /\ inv'[c].prerun # "none")
              \/ (inv[c].run = "none" /\ inv'[c].run # "none"))
                => accessLevel[1] >= requiredAccess(inv'[c].leaf)
          /\ inv'[c].signal = "InsufficientAccess"
                => \E i \in DOMAIN Replies' :
                      /\ Replies'[i].cmd = c
                      /\ Replies'[i].err.name = "InsufficientAccess" ]_vars

\* C2 (amended): prerun and run of a leaf are executed only for an invocation
\* that passed the access check made when it was invoked; a command invoked
\* while the session's level is below requiredAccess executes neither and is
\* answered ERRor InsufficientAccess with the required and the current level.
C2_AccessCheckedAtInvocation ==
    \A c \in Cmds :
       inv[c].leaf # "none" =>
          IF inv[c].level < requiredAccess(inv[c].leaf)
          THEN /\ inv[c].prerun = "none"
               /\ inv[c].run = "none"
               /\ inv[c].postrun = 0
               /\ \E i \in DOMAIN Replies :
                     Replies[i] =
                        respondError(c, [name |-> "InsufficientAccess",
                                         requiredAccess |-> requiredAccess(inv[c].leaf),
                                         currentAccess |-> inv[c].level],
                                     c, "input")
          ELSE inv[c].signal # "InsufficientAccess"

\* C2 witness: a command was refused for insufficient access and its reply
\* has been written, and another command passed the check and ran.
C2_Witness ==
    /\ \E i \in DOMAIN wire : wire[i].err.name = "InsufficientAccess"
    /\ \E c \in Cmds : inv[c].run = "ended" /\ inv[c].level >= requiredAccess(inv[c].leaf)

\* C5: the first replies to the commands of a session (OK, ERRor, or the NEXT
\* of an asynchronous command) are written in the order in which the commands
\* arrived; a reply written after a reply to a later command is the
\* completion reply of an asynchronous command.
C5_FirstRepliesInArrivalOrder ==
    \A p, q \in DOMAIN wire :
       p < q =>
          /\ (wire[p].src = "input" /\ wire[q].src = "input") => wire[p].cmd < wire[q].cmd
          /\ wire[p].cmd > wire[q].cmd =>
                /\ wire[q].src = "worker"
                /\ \E n \in 1..(q - 1) : wire[n].word = "NEXT" /\ wire[n].cmd = wire[q].cmd

\* C5 witness: two first replies have been written, and the completion reply
\* of the earlier command after the reply to the later one.
C5_Witness ==
    \E p, q \in DOMAIN wire :
       /\ p < q
       /\ wire[p].cmd > wire[q].cmd
       /\ wire[p].src = "input"
       /\ \E n \in 1..(p - 1) : wire[n].src = "input"

\* C6: the completion reply of an asynchronous command echoes the index of
\* that command, comes after its NEXT, and an OK carries the outputs of that
\* command's leaf formatted from that command's own response.
C6_CompletionEchoesOwnIndexAndOutputs ==
    \A i \in DOMAIN Replies :
       Replies[i].src = "worker" =>
          /\ Replies[i].echo = Replies[i].cmd
          /\ \E n \in 1..(i - 1) :
                Replies[n] = respondNext(Replies[i].cmd, Replies[i].cmd, "input")
          /\ Replies[i].word = "OK" =>
                Replies[i].outputs = [leaf |-> inv[Replies[i].cmd].leaf,
                                      response |-> Replies[i].cmd,
                                      outs |-> 0]

\* The signals that are errors.
ErrorSignals == {"UnknownCommand", "TypeError", "InsufficientAccess", "MissingArgument",
                 "SingletonRunning", "RunError", "AccessLevelExceeded", "NameError",
                 "RuntimeError"}

\* C7: every error raised while the session processes a command is caught at
\* the command's boundary: the input thread is never left by an exception,
\* and a command that ended in an error has exactly one ERRor reply, echoing
\* its index.
C7_ErrorsCaughtAtCommandBoundary ==
    /\ inThread # "died"
    /\ \A c \in Cmds :
          inv[c].signal \in ErrorSignals =>
             /\ Cardinality({i \in RepliesTo(c) : Replies[i].word = "ERRor"}) = 1
             /\ \A i \in RepliesTo(c) : Replies[i].echo = c

\* C8: for every leaf invocation, if prerun raised then neither run nor
\* postrun was called; if prerun returned then postrun is called exactly once
\* when run has ended (by return, error or control signal on the input
\* thread, or on the worker that ran the asynchronous part) and not before.
C8_PrerunPostrunContract ==
    \A c \in Cmds :
       /\ inv[c].prerun = "raised" => (inv[c].run = "none" /\ inv[c].postrun = 0)
       /\ inv[c].prerun = "ok" =>
             IF inv[c].signal = "NextReply"
             THEN inv[c].run = "none" /\ inv[c].postrun = 0
             ELSE inv[c].run = "ended" /\ inv[c].postrun = 1

\* C8 witness: an asynchronous invocation has completed on its worker with
\* its postrun called, and another invocation was aborted by its prerun.
C8_Witness ==
    /\ \E c \in Cmds :
          /\ workers[c].st = "done"
          /\ inv[c].prerun = "ok"
          /\ inv[c].postrun = 1
    /\ \E c \in Cmds : inv[c].prerun = "raised"

\* The invocations of leaf l that are between a successful prerun and postrun.
Live(invocations, l) ==
    {c \in Cmds : /\ invocations[c].leaf = l
                  /\ invocations[c].prerun = "ok"
                  /\ invocations[c].postrun = 0}

\* C9: at most one invocation of a Singleton leaf is live at any time; an
\* invocation attempted while another is live fails with SingletonRunning
\* without running and without touching the lock; one attempted while none
\* is live passes prerun.
C9_SingletonOneLiveInvocation ==
    [][ /\ \A l \in Leaves : singleton(l) => Cardinality(Live(inv', l)) <= 1
        /\ (inThread = "run" /\ inThread' = "read" /\ singleton(cur)) =>
              IF Live(inv, cur) # {}
              THEN /\ inv'[nread].signal = "SingletonRunning"
                   /\ inv'[nread].run = "none"
                   /\ runLock' = runLock
              ELSE inv'[nread].prerun = "ok" ]_vars

\* A step of the input loop in which getCommand fails with a ParseError.
ParseFailed == nread' = nread + 1 /\ lastLine'.outcome = "ParseError"

\* The line just read got exactly one reply, an ERRor, appended to the queue.
OneErrorReply ==
    /\ Len(writeQueue') = Len(writeQueue) + 1
    /\ wire' = wire
    /\ \A i \in DOMAIN writeQueue : writeQueue'[i] = writeQueue[i]
    /\ writeQueue'[Len(writeQueue')].word = "ERRor"
    /\ writeQueue'[Len(writeQueue')].cmd = nread'

\* C10 (as stated): when a line fails to parse the session sends one ERRor
\* reply, invokes no leaf on behalf of the line, leaves access level,
\* variables and job list unchanged, and continues with the next line.
C10_ParseFailureChangesNothing ==
    [][ ParseFailed =>
          /\ OneErrorReply
          /\ ~lastLine'.substituted
          /\ inv' = inv
          /\ UNCHANGED <<accessLevel, stealthAccess, exclusive, variables, jobs>>
          /\ inThread' = "read" ]_vars

\* C10 (amended): when a line fails to parse the session sends one ERRor
\* reply, does not invoke the line's own command, and continues with the
\* next line; access level, variables and job list are unchanged unless a
\* substitution of the line had already run its command.
C10_ParseFailureSkipsCommand ==
    [][ ParseFailed =>
          /\ OneErrorReply
          /\ inv' = inv
          /\ cur' = "none"
          /\ ~lastLine'.substituted
                => UNCHANGED <<accessLevel, stealthAccess, exclusive, variables, jobs>>
          /\ inThread' = "read" ]_vars

\* C10 witness: a line whose substitution had run failed to parse, its ERRor
\* reply has been written, and the input loop is reading again.
C10_Witness ==
    /\ lastLine.outcome = "ParseError"
    /\ lastLine.substituted
    /\ variables = nread
    /\ inThread = "read"
    /\ \E i \in DOMAIN wire : wire[i].cmd = nread /\ wire[i].err.name = "ParseError"

(***************************************************************************)
(* Claims checked under SpecMacro                                          *)
(***************************************************************************)
Executed == {mexec[k] : k \in DOMAIN mexec}

C12_NextReplyThenTerminalReply ==
    \A i \in DOMAIN mbody :
        (mbody[i] = "NEXT" /\ i \in Executed) =>
            /\ mreplies # <<>> => mreplies[1].word = "NEXT"
            /\ \A k \in DOMAIN mreplies :
                  mreplies[k].word \in {"OK", "ERR"} => mworker = "done"

\* C13: an invocation is in the session's job list exactly while it is
\* executing: the input thread's from the call of the macro until its reply,
\* the worker's from its start until its reply; when both have finished the
\* job list is empty.
C13_JobListTracksExecution ==
    /\ ("input" \in mjobs) <=> (mrun \in {"body", "returning"})
    /\ ("worker" \in mjobs) <=> (mworker = "running")
    /\ (mrun \in {"idle", "done"} /\ mworker \in {"none", "done"}) => mjobs = {}

\* Both threads have run part of a macro and ended, one of them on an error
\* or a control signal, and the job list is empty again.
C13_Witness ==
    /\ mrun = "done"
    /\ mworker = "done"
    /\ mjobs = {}
    /\ \E i \in Executed : mbody[i] \in {"FAIL", "RETurn", "BREak"}

(***************************************************************************)
(* Claims about the teardown of a client session                           *)
(***************************************************************************)

\* C14: when a network client disconnects, the teardown of its session
\* completes: the step that ends NetworkSession.cleanup has run the exit
\* hooks and reached ClientSession.cleanup and BaseSession.cleanup.
C14_TeardownReachesBaseCleanup ==
    [][\A s \in Clients :
          (phase[s] = "exit" /\ phase'[s] # "exit") => result' = "cleanup"]_vars

\* TRUE when some subscriber list or future filter holds a record of the
\* session's callback.
Subscribed(s) ==
    \/ \E i \in DOMAIN ptopics : \E k \in DOMAIN ptopics[i].subs :
          ptopics[i].subs[k].cb = s
    \/ \E i \in DOMAIN pfilters : \E k \in DOMAIN pfilters[i].records :
          pfilters[i].records[k].cb = s

\* C16: after a client session's input stream has closed and its teardown
\* has ended, no subscriber list of a topic and no future filter holds a
\* subscription record of that session.
C16_NoSubscriptionAfterClose ==
    \A s \in Clients : phase[s] \in {"none", "ended"} => ~Subscribed(s)

(***************************************************************************)
(* Claims checked under SpecPub                                            *)
(***************************************************************************)

\* TRUE when the subscriber list of the topic added last holds the record
\* of the registered subscription r.
Inherited(r) ==
    LET subs == ptopics[Len(ptopics)].subs
    IN  \E k \in DOMAIN subs :
           subs[k] = subscription(r.mask, r.level, r.cb, r.args)

\* TRUE when the last operation was an addTopic that created its topic.
TopicCreated == presult.op = "addTopic" /\ presult.out = "created"

\* C17 as stated: after addTopic(T) has created a new topic, every
\* subscription registered earlier with a wildcard pattern, or with
\* future=true, that matches T is in T's subscriber list.
C17_WildcardOrFutureInherited ==
    TopicCreated =>
        \A r \in pregistered :
            ((iswildcard(r.mask) \/ r.future = "True")
             /\ match(r.mask, ptopics[Len(ptopics)].name)) => Inherited(r)

\* C17 amended: after addTopic(T) has created a new topic, every
\* subscription registered earlier whose future flag is in effect (given as
\* true, or not given with a wildcard pattern) and whose pattern matches T is
\* in T's subscriber list.
C17_FutureSubscriptionsInherited ==
    TopicCreated =>
        \A r \in pregistered :
            ((r.future = "True" \/ (r.future = "None" /\ iswildcard(r.mask)))
             /\ match(r.mask, ptopics[Len(ptopics)].name)) => Inherited(r)

\* A new topic has inherited a wildcard subscription made before it existed.
C17_Witness ==
    /\ TopicCreated
    /\ \E r \in pregistered :
          r.future = "None" /\ iswildcard(r.mask)
          /\ match(r.mask, ptopics[Len(ptopics)].name) /\ Inherited(r)

\* C18: after unsubscribe(pattern, callback), no subscriber list of a topic
\* the pattern matches and no future filter of that pattern holds a record
\* of the callback.
C18_UnsubscribeRemovesRecords ==
    [][\A s \in Clients, mask \in Masks :
          unsubscribe(s, mask) =>
              /\ \A i \in DOMAIN ptopics' :
                    match(mask, ptopics'[i].name) =>
                        \A k \in DOMAIN ptopics'[i].subs : ptopics'[i].subs[k].cb # s
              /\ \A i \in DOMAIN pfilters' :
                    pfilters'[i].pattern = mask =>
                        \A k \in DOMAIN pfilters'[i].records :
                            pfilters'[i].records[k].cb # s]_vars

\* An unsubscribe has removed records while another callback stays subscribed.
C18_Witness ==
    /\ presult.op = "unsubscribe"
    /\ presult.count > 0
    /\ \E s \in Clients : Subscribed(s)

\* C19: a message published on a topic with a level below the level of that
\* topic is dropped: no callback is invoked for it and it is not added to
\* the pending queue.
C19_BelowTopicLevelDropped ==
    [][\A topic \in PTopics, level \in MessageLevels \ {NoLevel},
          trigger \in Triggers \cup {NoTrigger}, createMissing \in BOOLEAN :
          (/\ publish(topic, level, trigger, createMissing)
           /\ topicExists(ptopics, topic)
           /\ level < getLevel(ptopics, topic))
          => (pdelivered' = <<>> /\ pdelayed' = pdelayed)]_vars

\* The pending entries publishPending(tag) has to deliver, and to keep.
Tagged(tag) ==
    LET tagged(e) == e.trigger = tag
    IN  SelectSeq(pdelayed, tagged)

Untagged(tag) ==
    LET other(e) == e.trigger # tag
    IN  SelectSeq(pdelayed, other)

\* C20: a message published with a trigger tag is not delivered at publish
\* time; publishPending(tag) delivers the pending messages of that tag to
\* the subscribers selected at publish time, removes them from the pending
\* queue and leaves the messages of other tags in it.
C20_PendingDeliveredByTag ==
    [][/\ \A topic \in PTopics, level \in MessageLevels, tag \in Triggers,
             createMissing \in BOOLEAN :
             publish(topic, level, tag, createMissing) => pdelivered' = <<>>
       /\ \A tag \in Triggers :
             publishPending(tag) =>
                 /\ pdelayed' = Untagged(tag)
                 /\ (\E k \in DOMAIN Tagged(tag) : Tagged(tag)[k].subscribers # <<>>)
                       => pdelivered' # <<>>]_vars

(***************************************************************************)
(* Claims checked under SpecDispatch                                       *)
(***************************************************************************)
\* The ids of the messages written to the client of session s, in the order
\* of the writes.
WrittenMessages(s) ==
    LET isMessage(w) == w.kind = "MESSAGE"
        written == SelectSeq(dwire[s], isMessage)
    IN  [i \in DOMAIN written |-> written[i].id]

\* C21: the messages published on one topic are written to the client of
\* each subscribing session in the order in which publish was called for
\* that topic (a message's id is the number of its call).
C21_PublishOrderPreserved ==
    \A s \in Clients :
        \A i, j \in DOMAIN WrittenMessages(s) :
            i < j => WrittenMessages(s)[i] < WrittenMessages(s)[j]

RECURSIVE stopPrefix(_)
\* The records a walk has to call: all of them, up to and including the
\* first whose callback raises StopIteration.
stopPrefix(records) ==
    IF records = <<>> THEN <<>>
    ELSE IF callbackOutcome(Head(records).args) = "StopIteration"
         THEN <<Head(records)>>
         ELSE <<Head(records)>> \o stopPrefix(Tail(records))

\* The callback invocations made for the message with that id, in order.
CallsOf(id) ==
    LET forMessage(c) == c.id = id
        calls == SelectSeq(dcalls, forMessage)
    IN  [i \in DOMAIN calls |-> [cb |-> calls[i].cb, args |-> calls[i].args]]

\* A walk of thread p has ended (normally, or by an exception).
WalkEnded(p) ==
    dpc[p] = "idle" /\ dend[p] \in {"done", "StopIteration", "TypeError"}

\* C22: whatever is subscribed or unsubscribed while a message is being
\* dispatched, once the walk has ended every subscriber that was in the
\* topic's list with a qualifying level when dispatch began has been called
\* exactly once for that message, in list order, up to the first callback
\* that raised StopIteration.
C22_EverySubscriberCalledOnce ==
    \A p \in Publishers :
        WalkEnded(p) =>
            CallsOf(dmsg[p].id) =
                [i \in DOMAIN stopPrefix(dsnap[p]) |->
                    [cb |-> stopPrefix(dsnap[p])[i].cb,
                     args |-> stopPrefix(dsnap[p])[i].args]]

\* C23: what is written to a socket session's client is the queued items in
\* the order in which they were queued, each written whole (all the writes
\* of one item, the streamed segment of a reply with an output callback
\* included) before the first write of the next.
C23_WholeFramesInQueueOrder ==
    \A s \in Clients :
        \A i \in DOMAIN dwire[s] :
            LET w == dwire[s][i]
            IN  IF w.part = 1
                THEN \/ i = 1 /\ w.qn = 1
                     \/ /\ i > 1
                        /\ dwire[s][i - 1].part = dwire[s][i - 1].writes
                        /\ w.qn = dwire[s][i - 1].qn + 1
                ELSE /\ i > 1
                     /\ dwire[s][i - 1].qn = w.qn
                     /\ dwire[s][i - 1].part = w.part - 1

\* A session's client has received a streamed reply whole (its third write
\* is the closing tag) and, after it, a message sent by a publisher's thread.
C23_Witness ==
    \E s \in Clients :
        \E i, j \in DOMAIN dwire[s] :
            /\ i < j
            /\ dwire[s][i].kind = "OK" /\ dwire[s][i].part = 3
            /\ dwire[s][j].kind = "MESSAGE"
(***************************************************************************)
(* Claims checked under SpecTree                                           *)
(***************************************************************************)
\* C24: for every child class of the branch, the lookups by its primary
\* name, by its intermediate alias and by its short alias, in any letter
\* case and after any earlier lookups, have all returned one and the same
\* object.
C24_AliasesResolveToOneNode ==
    \A c \in StaticClasses :
        \A a, b \in tlooked :
            (/\ \E i \in 1..3 : keysOf(c)[i] = a.key
             /\ \E i \in 1..3 : keysOf(c)[i] = b.key)
            => a.id = b.id

\* Every key that resolved to an object still resolves to that object.
Preserved ==
    \A k \in Keys : tchildren[k] # NoNode => tchildren'[k] = tchildren[k]

\* C25: a definition without replaceExisting either fails or, in every
\* step it takes, leaves each name and alias that resolved to a node
\* resolving to that node.
C25_DefinitionKeepsResolutions ==
    [][(\/ \E s \in Clients, name \in DynamicNames, m \in ModifyAccessInputs :
             addinstance(s, name, FALSE, m)
        \/ \E s \in Clients : Branch_addChild(s) /\ tjob[s].op = "define")
       => Preserved]_vars

\* The name is that of a dynamic command whose modifyAccess is above the
\* level of session s.
Protected(s, name) ==
    LET found == findChild(lower(name))
    IN  /\ found.kind = "instance"
        /\ found.node.dyn
        /\ accessLevel[s] < found.node.modifyAccess

\* C26: MACRo+ -replaceExisting and MACRo- on a dynamic command, by a
\* session whose level is below the command's modifyAccess, fail with
\* InsufficientAccess and leave the command tree unchanged.
C26_ModifyAccessGuardsCommands ==
    [][\A s \in Clients, name \in DynamicNames :
          Protected(s, name) =>
              /\ MACRo_Add(s, name, TRUE) =>
                     (tresult'[s] = "InsufficientAccess" /\ tchildren' = tchildren)
              /\ \A ignoreMissing \in BOOLEAN :
                     MACRo_Remove(s, name, ignoreMissing) =>
                         (tresult'[s] = "InsufficientAccess" /\ tchildren' = tchildren)]_vars

\* Session t is adding or replacing a dynamic command and session s, which
\* has already been given the new object by a lookup, would not get it under
\* that key.
SeesOldAfterNew(s, t, key) ==
    /\ tpc[t] = "addChild"
    /\ tjob[t].op \in {"define", "replace"}
    /\ \E e \in tlooked : e.by = s /\ e.id = tjob[t].obj.id
    /\ \E i \in 1..3 : keysOf(tjob[t].obj.name)[i] = key
    /\ tchildren[key].id # tjob[t].obj.id

\* C27: while a session adds or replaces a dynamic command, the lookups of
\* another session see the tree either as it was before the update or as it
\* is after it: a session that has seen the new command under one of its
\* names does not look up another of its names in a tree that does not have
\* it yet.
C27_LookupsSeeWholeUpdates ==
    [][\A s \in Clients, query \in Queries :
          Branch_getChild(s, query) =>
              ~\E t \in Clients \ {s} : SeesOldAfterNew(s, t, lower(query))]_vars

(***************************************************************************)
(* Claims checked under SpecVars                                           *)
(***************************************************************************)
\* The value that the first of three maps holding the name holds, as the
\* words of the str a reference yields; no word when none holds it.
firstValue(first, second, third, name) ==
    IF name \in DOMAIN first THEN first[name].words
    ELSE IF name \in DOMAIN second THEN second[name].words
    ELSE IF name \in DOMAIN third THEN third[name].words
    ELSE <<>>

firstHolderOrLocal(s, branch, name) ==
    IF name \in DOMAIN vlocal[s] THEN LocalScope
    ELSE IF name \in DOMAIN vbranch[branch] THEN BranchScope
    ELSE IF name \in DOMAIN vglobal THEN GlobalScope
    ELSE LocalScope

\* C29: a VARiable= command without -scope, run by a session that may set
\* variables, writes the name into the first scope (local, branch, global)
\* that already holds it, into the local scope when none holds it, and
\* leaves the maps of the other two scopes as they were.
C29_SetWritesFirstHolder ==
    [][\A s \in Clients, branch \in Branches, c \in SetCommands :
          (VARiable_Set(s, branch, c) /\ c.scope = NoScope
                                      /\ accessLevel[s] >= CONTROLLER) =>
              LET target == firstHolderOrLocal(s, branch, c.name) IN
              /\ target = LocalScope =>
                    /\ c.name \in DOMAIN vlocal'[s]
                    /\ vbranch' = vbranch /\ vglobal' = vglobal
              /\ target = BranchScope =>
                    /\ c.name \in DOMAIN vbranch'[branch]
                    /\ vlocal' = vlocal /\ vglobal' = vglobal
              /\ target = GlobalScope =>
                    /\ c.name \in DOMAIN vglobal'
                    /\ vlocal' = vlocal /\ vbranch' = vbranch]_vars

\* The names that a macro body sets in the local scope of its context.
localNames(body) ==
    {body[i].name : i \in {j \in DOMAIN body : body[j].scope \in {NoScope, LocalScope}}}

\* C30: a non-inline macro runs its body and leaves the caller's local map
\* unchanged; an inline macro runs in the caller's context, so that after it
\* the caller's local map holds the macro's argument bindings and the local
\* variables its body set.
C30_MacroContexts ==
    [][\A s \in Clients, parameters \in Parameters, body \in VarBodies :
          /\ (Macro_runMacro(s, parameters, body) /\ accessLevel[s] >= FULL) =>
                /\ vresult'.outcome = "ok"
                /\ vlocal' = vlocal
          /\ (InlineMacro_runMacro(s, parameters, body) /\ accessLevel[s] >= FULL) =>
                /\ vresult'.outcome = "ok"
                /\ \A n \in (DOMAIN parameters) \cup localNames(body) :
                      n \in DOMAIN vlocal'[s]]_vars

(***************************************************************************)
(* Claims checked under SpecBind                                           *)
(***************************************************************************)
\* The parameters that hold no value after the parts were bound although
\* they are required (no default, or a repeating one with a minimum).
Unbound(decl, mapped) ==
    {i \in DOMAIN decl :
        /\ mapped[decl[i].name] = <<>>
        /\ decl[i].required \/ (decl[i].repeats /\ decl[i].rmin > 0)}

\* C31: when a leaf has accepted all parts of a command line, every part is
\* bound to exactly one parameter (the value of part k is among the values
\* of the parameter it was mapped to, and of no other), and the binding
\* fails with MissingArgument if and only if a required parameter has no
\* value.
C31_PartsPartitionParameters ==
    (bresult.outcome \notin {"none", "NoSuchCommandOption", "ExtraArgument"}) =>
        /\ \A k \in DOMAIN bparts :
              \A n \in ParamNames(bdecl) :
                  (\E j \in DOMAIN bresult.mapped[n] : bresult.mapped[n][j] = k)
                      <=> (n = bresult.bound[k])
        /\ (bresult.outcome = "MissingArgument") <=> (Unbound(bdecl, bresult.mapped) # {})

\* ===========================================================================
\* Claims checked under SpecReady
\* ===========================================================================

readySent == {k \in DOMAIN hwire : hwire[k] = readyLine}

hookFailed == \E k \in DOMAIN hwire : hwire[k].from = "hook" /\ hwire[k].word = "ERRor"

\* C32: READy is sent at most once and only when every enter hook has
\* completed successfully (no part of a hook still runs, no hook has failed or
\* fails later), it precedes the reply to any command of the client, and a
\* failed hook sends ERRor and no READy.
C32_ReadyAfterHooks ==
    /\ Cardinality(readySent) <= 1
    /\ (readySent # {}) => ~hookFailed
    /\ (readySent # {}) => (hthreads = {})
    /\ \A k \in DOMAIN hwire :
          (hwire[k].from = "client") => (\E r \in readySent : r < k)

\* ===========================================================================
\* Claims checked under SpecClient
\* ===========================================================================

\* A receive_response call that waits in responseQueue.get without timeout
\* while the client is disconnected, nothing is in its queue and no thread
\* reads the input.
blockedForever(i) ==
    /\ cwaiter[i] = "get"
    /\ cqueue[i] = <<>>
    /\ ~is_connected
    /\ is_receiving = "no"

\* C33: once the loss of the connection is detected, no receive_response call
\* blocks forever or ends without SCPIDisconnected or a response, and a
\* command sent while the client is disconnected fails with SCPIDisconnected.
C33_DisconnectReachesWaiters ==
    /\ \A i \in CommandIndexes : cwaiter[i] # "None"
    /\ \A i \in CommandIndexes : ~blockedForever(i)
    /\ clast.after => clast.outcome \in {"none", "SCPIDisconnected"}
    /\ (clast.after /\ clast.outcome = "none") => csender = "idle"

\* ===========================================================================
\* Claims checked under SpecParse
\* ===========================================================================

\* C34: parsing the text that collapseArgs made of a part list with
\* QUOTE_AUTO yields the options and cooked values of the list, in order.
C34_ParserRoundTrip ==
    (pparsed # NotParsed) => (pparsed.status = "parsed" /\ pparsed.parts = pparts)

\* ===========================================================================
\* Claims checked under SpecMacroAccess
\* ===========================================================================

\* C35: the commands of a macro body run, and never above the level the
\* defining session held; MACRo+ answers an -access above the level of the
\* session with TooMuchAccess and defines the macro otherwise.
C35_MacroAccessBounded ==
    /\ (mresult.op = "MACRo+") =>
          (mresult.outcome = IF mresult.access > mresult.caller
                             THEN "TooMuchAccess" ELSE "ok")
    /\ (mresult.op = "call" /\ mresult.outcome # "InsufficientAccess") =>
          /\ mresult.outcome = "ok"
          /\ mresult.level <= mmacro.creator

\* ===========================================================================
\* Claims checked under SpecBreak
\* ===========================================================================

\* C36: BREak with levels = N ends the N innermost execution scopes: none of
\* them reads a further command, and the scope N levels up goes on with its
\* next command (the client's command is answered when N scopes are all
\* there are).
C36_BreakLeavesNScopes ==
    [][\A levels \in 1..MaxLevels :
          (runStream_Break(levels) /\ levels <= Len(bstack)) =>
              bstack' = SubSeq(bstack, 1, Len(bstack) - levels)]_vars

(***************************************************************************)
(* Claims checked under SpecExec: the replies a command receives           *)
(***************************************************************************)

\* The replies the client takes as replies to its command c: those that echo
\* its index (a ParseError reply echoes the text of the line instead).
answersTo(c, words) ==
    {i \in DOMAIN Replies :
        /\ Replies[i].word \in words
        /\ \/ Replies[i].echo = c
           \/ Replies[i].echo = 0 /\ Replies[i].cmd = c}

\* C37: every command of a client session receives at most one NEXT reply
\* and at most one terminal reply (OK or ERRor), the NEXT before the terminal
\* one, and once the session has read the end of its input with all workers
\* finished every command that was run has its terminal reply.
C37_OneTerminalReply ==
    \A c \in Cmds :
       /\ Cardinality(answersTo(c, {"OK", "ERRor"})) <= 1
       /\ Cardinality(answersTo(c, {"NEXT"})) <= 1
       /\ \A i \in answersTo(c, {"NEXT"}), j \in answersTo(c, {"OK", "ERRor"}) : i < j
       /\ (inThread = "closed" /\ inv[c].leaf # "none") =>
             answersTo(c, {"OK", "ERRor"}) # {}

(***************************************************************************)
(* Claims checked under SpecPub: who receives a published message          *)
(***************************************************************************)

\* The level a message published with `level` on the topic carries.
messageLevel(topic, level) ==
    IF level = NoLevel THEN getLevel(ptopics, topic) ELSE level

\* TRUE when the delivery that follows calls the callback of the record.
called(r) ==
    \E d \in DOMAIN pdelivered' :
       pdelivered'[d].cb = r.cb /\ pdelivered'[d].args = r.args

\* C38: a message published on a topic at level L invokes the callback of
\* every record in the topic's subscriber list whose cutoff is at most L,
\* whether the record was appended by subscribe or inherited from a future
\* filter when the topic was created.
C38_PublishReachesSubscribers ==
    [][\A topic \in PTopics, level \in MessageLevels, createMissing \in BOOLEAN :
          (/\ publish(topic, level, NoTrigger, createMissing)
           /\ topicExists(ptopics, topic))
          => \A k \in DOMAIN ptopics[topicIndex(ptopics, topic)].subs :
                LET r == ptopics[topicIndex(ptopics, topic)].subs[k]
                IN  r.level <= messageLevel(topic, level) => called(r)]_vars

(***************************************************************************)
(* Claims checked under SpecTree: replaced and removed commands            *)
(***************************************************************************)

\* TRUE when some key of the branch resolves to the object with that id.
reachable(entries, id) == \E k \in Keys : entries[k] # NoNode /\ entries[k].id = id

\* The dynamic command the name resolves to and that session s may modify.
Modifiable(s, name) ==
    LET found == findChild(lower(name))
    IN  /\ found.kind = "instance"
        /\ found.node.dyn
        /\ accessLevel[s] >= found.node.modifyAccess

\* C39: once MACRo+ -replaceExisting has replaced a dynamic command, no key
\* resolves to the old definition (a key of the name resolves to the new
\* object or to nothing), and once MACRo- has removed a command no key
\* resolves to the removed object.
C39_ReplacedCommandUnreachable ==
    [][/\ \A s \in Clients, name \in DynamicNames :
             (MACRo_Add(s, name, TRUE) /\ Modifiable(s, name)) =>
                 ~reachable(tchildren', findChild(lower(name)).node.id)
       /\ \A s \in Clients :
             (/\ Branch_addChild(s)
              /\ tjob[s].op = "replace"
              /\ tpc'[s] = "idle") =>
                 \A k \in Keys :
                    (tchildren'[k] # NoNode /\ tchildren'[k].name = tjob[s].obj.name)
                    => tchildren'[k].id = tjob[s].obj.id
       /\ \A s \in Clients, name \in Names, ignoreMissing \in BOOLEAN :
             (MACRo_Remove(s, name, ignoreMissing) /\ tresult'[s] = "removed") =>
                 ~reachable(tchildren', findChild(lower(name)).node.id)
       /\ \A s \in Clients :
             (Branch_delChild(s) /\ tresult'[s] = "removed") =>
                 ~reachable(tchildren', tjob[s].obj.id)]_vars

====
